---- MODULE Spec2Model ----
(***************************************************************************)
(* State-machine model of the SmartArt diagram graph of python-pptx        *)
(* (src/src/pptx/diagram.py, src/src/pptx/oxml/diagram.py).                *)
(*                                                                         *)
(* The diagram-data sub-document is a point list (dgm:ptLst) and a         *)
(* connection list (dgm:cxnLst).  Both are modelled as sequences, in       *)
(* document order, of records holding the XML attributes the code reads    *)
(* and writes.  Identifiers (braced UUIDs in the code) are naturals drawn  *)
(* from a counter, so that every generated identifier is fresh.            *)
(***************************************************************************)
EXTENDS Integers, Sequences, FiniteSets

VARIABLES
  ptLst,      \* sequence of dgm:pt records, document order
  cxnLst,     \* sequence of dgm:cxn records, document order
  hasPtLst,   \* whether the dataModel holds a dgm:ptLst element
  hasCxnLst,  \* whether the dataModel holds a dgm:cxnLst element
  uuid,       \* next identifier uuid4() hands out
  origin,     \* which document the part was loaded from
  adds,       \* add_node calls made so far
  lastOp,     \* the last facade call: its arguments, result and sub-steps
  before,     \* the dataModel as it was when the last add_node call began
  rels,       \* relationships of the diagram part, in creation order
  imageOps,   \* image calls made so far
  lastImg,    \* the last image call: rId made, warning, host refusal
  threads     \* add_node calls running at once: their positions and locals

vars == <<ptLst, cxnLst, hasPtLst, hasCxnLst, uuid, origin, adds, lastOp, before,
          rels, imageOps, lastImg, threads>>

-----------------------------------------------------------------------------
(* Bounds of the model.                                                    *)

\* add_node calls in one run
MaxAdds == 2

\* image calls in one run
MaxImageOps == 2

\* add_node calls in one run with image calls
MaxImageAdds == 1

\* texts in one list handed to sync_smartart_text
MaxTexts == 2

\* An attribute that is not present (`.get(name)` returns None).
Absent == 0

\* An integer attribute (srcOrd, presStyleCnt, ...) that is not present.
NoOrd == -1

\* Texts handed to add_node; "" is the default (no text set).
Texts == {"", "Alpha", "Beta"}

\* Texts in the lists handed to sync_smartart_text; " " is a blank text.
SyncTexts == {"", " ", "Alpha"}

\* Image files handed to the image calls.
Images == {"a.png"}

-----------------------------------------------------------------------------
(* Records.                                                                *)

\* CT_PtList.add_pt: a dgm:pt with a modelId and a type, nothing else.
\* `type` is what CT_Pt.type reads: "node" when the attribute is missing.
\* spPr is the tag of the child of dgm:spPr ("" when it has none), embed the
\* r:embed of the a:blip inside it, imagePath the imagePath attribute of
\* dgm:prSet ("" when it has none).  t tells what the point has of the text
\* structure: "none" (no dgm:t), "t" (a dgm:t without a:p) or "p" (dgm:t with
\* a:p); p_text is the text of that a:p, v_text the text of dgm:t/dgm:v.
NewPt(model_id, node_type) ==
  [modelId |-> model_id, type |-> node_type, cxnId |-> Absent,
   presAssocID |-> Absent, presName |-> "", presStyleIdx |-> NoOrd,
   presStyleCnt |-> NoOrd, spPr |-> "", t |-> "none", p_text |-> "",
   v_text |-> "", embed |-> Absent, imagePath |-> ""]

\* CT_Pt._ensure_text_structure: a point without dgm:t gets dgm:t with an
\* empty a:p; a point that has a dgm:t is left as it is.
_ensure_text_structure(pt) ==
  IF pt.t = "none" THEN [pt EXCEPT !.t = "p"] ELSE pt

\* A point as the documents below store it: with its text structure.
TextPt(model_id, node_type) == _ensure_text_structure(NewPt(model_id, node_type))

\* A dgm:cxn with no attribute set.
NewCxn ==
  [modelId |-> Absent, type |-> "", srcId |-> Absent, destId |-> Absent,
   srcOrd |-> NoOrd, destOrd |-> NoOrd, parTransId |-> Absent,
   sibTransId |-> Absent, presId |-> Absent, id |-> Absent]

\* The dataModel element together with the uuid source.
State(pts, cxns, hp, hc, u) ==
  [ptLst |-> pts, cxnLst |-> cxns, hasPtLst |-> hp, hasCxnLst |-> hc, uuid |-> u]

Cur == State(ptLst, cxnLst, hasPtLst, hasCxnLst, uuid)

-----------------------------------------------------------------------------
(* Sequence helpers.                                                       *)

Range(s) == {s[i] : i \in 1..Len(s)}

\* Index of the first element of s that satisfies Test, 0 when there is none.
FirstIdx(s, Test(_)) ==
  IF \E i \in 1..Len(s) : Test(s[i])
  THEN CHOOSE i \in 1..Len(s) : Test(s[i]) /\ \A j \in 1..(i-1) : ~Test(s[j])
  ELSE 0

PtIds(pts) == {pts[i].modelId : i \in 1..Len(pts)}

\* CT_DataModel.pt_lst: the dgm:pt elements, [] when there is no ptLst.
pt_lst(s) == IF s.hasPtLst THEN s.ptLst ELSE <<>>

\* CT_DataModel.get_doc_node: modelId of the first point of type doc.
get_doc_node(s) ==
  LET i == FirstIdx(pt_lst(s), LAMBDA p : p.type = "doc")
  IN  IF i = 0 THEN Absent ELSE pt_lst(s)[i].modelId

\* SmartArt.editable_nodes: the points whose type reads "node", in order.
editable_nodes(s) == SelectSeq(pt_lst(s), LAMBDA p : p.type = "node")

\* The count both create_presentation_nodes and _update_pres_style_cnt make:
\* every point whose type is none of pres, parTrans, sibTrans, doc.
IsCounted(p) == p.type \notin {"pres", "parTrans", "sibTrans", "doc"}

-----------------------------------------------------------------------------
(* SmartArtNodeFactory.                                                    *)

\* _create_data_node: add_pt(node_id, "node"), the type attribute deleted
\* (so it reads "node"), empty prSet and spPr, empty text structure.
_create_data_node(pts, node_id) ==
  Append(pts, _ensure_text_structure(NewPt(node_id, "node")))

\* A _create_transition_nodes whose sibTrans point carries no cxnId.
_create_transition_nodes_sib_unlinked(pts, par_id, sib_id, cxn_id) ==
  pts \o << _ensure_text_structure(
               [NewPt(par_id, "parTrans") EXCEPT !.cxnId = cxn_id]),
            _ensure_text_structure(NewPt(sib_id, "sibTrans")) >>

\* _create_transition_nodes: a parTrans and a sibTrans point carrying cxnId.
_create_transition_nodes(pts, par_id, sib_id, cxn_id) ==
  pts \o << _ensure_text_structure(
               [NewPt(par_id, "parTrans") EXCEPT !.cxnId = cxn_id]),
            _ensure_text_structure(
               [NewPt(sib_id, "sibTrans") EXCEPT !.cxnId = cxn_id]) >>

create_node_with_transitions(pts, node_id, cxn_id, par_trans_id, sib_trans_id) ==
  _create_transition_nodes(_create_data_node(pts, node_id),
                           par_trans_id, sib_trans_id, cxn_id)

\* Position of a presName in Python's string order, over the names in use.
PresNameRank(n) ==
  CASE n = ""            -> 0
    [] n = "Name0"       -> 1
    [] n = "compNode"    -> 2
    [] n = "fgImgPlace1" -> 3
    [] n = "pictRect"    -> 4
    [] n = "sibTrans"    -> 5
    [] n = "textRect"    -> 6
    [] OTHER             -> 7

\* list.sort(key=presName): a stable sort.
RECURSIVE SortByPresName(_)
SortByPresName(s) ==
  IF s = <<>> THEN <<>>
  ELSE LET init == SortByPresName(SubSeq(s, 1, Len(s) - 1))
           x    == s[Len(s)]
           k    == Cardinality({i \in 1..Len(init) :
                      PresNameRank(init[i].presName) <= PresNameRank(x.presName)})
       IN  SubSeq(init, 1, k) \o <<x>> \o SubSeq(init, k + 1, Len(init))

\* The pres points whose presAssocID is data_id, in document order.
PresNodesOf(pts, data_id) ==
  SelectSeq(pts, LAMBDA p : p.type = "pres" /\ p.presAssocID = data_id)

\* The clone create_presentation_nodes makes of one template point.
ClonePres(t, pres_id, data_node_id, editable_node_count) ==
  [NewPt(pres_id, "pres") EXCEPT
     !.presAssocID  = data_node_id,
     !.presName     = t.presName,
     !.presStyleCnt = IF t.presStyleCnt = NoOrd THEN NoOrd
                      ELSE IF t.presName = "compNode" THEN t.presStyleCnt
                      ELSE editable_node_count + 1,
     !.presStyleIdx = IF t.presStyleIdx = NoOrd THEN NoOrd
                      ELSE editable_node_count,
     !.spPr         = t.spPr,
     !.embed        = t.embed]

\* list.index: position of the first occurrence.
IndexOf(ids, x) == FirstIdx(ids, LAMBDA y : y = x)

\* A _create_presentation_connections_from_template that does not skip
\* the presOf connections.
_create_presentation_connections_with_presOf(s, pres_ids, template_pres_nodes) ==
  IF template_pres_nodes = <<>> \/ Len(pres_ids) # Len(template_pres_nodes)
     \/ ~s.hasCxnLst
  THEN s
  ELSE
    LET template_node_ids ==
          [i \in 1..Len(template_pres_nodes) |-> template_pres_nodes[i].modelId]
        tids == Range(template_node_ids)
        template_connections ==
          SelectSeq(s.cxnLst, LAMBDA c : c.srcId \in tids \/ c.destId \in tids)
        map(x) == IF x \in tids THEN pres_ids[IndexOf(template_node_ids, x)] ELSE x
        copies ==
          [i \in 1..Len(template_connections) |->
             [template_connections[i] EXCEPT
                !.modelId = s.uuid + i - 1,
                !.srcId   = map(template_connections[i].srcId),
                !.destId  = map(template_connections[i].destId)]]
    IN  [s EXCEPT !.cxnLst = s.cxnLst \o copies,
                  !.uuid   = s.uuid + Len(template_connections)]

\* _create_presentation_connections_from_template: every non-presOf
\* connection touching a template point is copied with a fresh modelId,
\* template endpoints replaced by their clones.  All other attributes,
\* the id attribute included, are copied.
_create_presentation_connections_from_template(s, pres_ids, template_pres_nodes) ==
  IF template_pres_nodes = <<>> \/ Len(pres_ids) # Len(template_pres_nodes)
     \/ ~s.hasCxnLst
  THEN s
  ELSE
    LET template_node_ids ==
          [i \in 1..Len(template_pres_nodes) |-> template_pres_nodes[i].modelId]
        tids == Range(template_node_ids)
        template_connections ==
          SelectSeq(s.cxnLst, LAMBDA c : c.type # "presOf"
                                  /\ (c.srcId \in tids \/ c.destId \in tids))
        map(x) == IF x \in tids THEN pres_ids[IndexOf(template_node_ids, x)] ELSE x
        copies ==
          [i \in 1..Len(template_connections) |->
             [template_connections[i] EXCEPT
                !.modelId = s.uuid + i - 1,
                !.srcId   = map(template_connections[i].srcId),
                !.destId  = map(template_connections[i].destId)]]
    IN  [s EXCEPT !.cxnLst = s.cxnLst \o copies,
                  !.uuid   = s.uuid + Len(template_connections)]

\* _create_presof_connection: the presId comes from the first presOf
\* connection of the list; without one no connection is made.
_create_presof_connection(s, data_node_id, textRect_pres_id) ==
  IF ~s.hasCxnLst THEN s
  ELSE
    LET i == FirstIdx(s.cxnLst, LAMBDA c : c.type = "presOf")
        pres_id == IF i = 0 THEN Absent ELSE s.cxnLst[i].presId
    IN  IF pres_id = Absent THEN s
        ELSE [s EXCEPT
                !.cxnLst = Append(s.cxnLst,
                  [NewCxn EXCEPT !.modelId = s.uuid, !.type = "presOf",
                                 !.srcId = data_node_id,
                                 !.destId = textRect_pres_id,
                                 !.srcOrd = 0, !.destOrd = 0,
                                 !.presId = pres_id]),
                !.uuid = s.uuid + 1]

create_presentation_nodes(s, data_node_id, template_data_node_id) ==
  LET template_found ==
        IF template_data_node_id = Absent THEN <<>>
        ELSE PresNodesOf(s.ptLst, template_data_node_id)
  IN
  IF template_found = <<>> THEN s
  ELSE
    LET template_pres_nodes == SortByPresName(template_found)
        n == Len(template_pres_nodes)
        editable_node_count ==
          Cardinality({i \in 1..Len(s.ptLst) :
             IsCounted(s.ptLst[i]) /\ s.ptLst[i].modelId # data_node_id})
        created_pres_ids == [i \in 1..n |-> s.uuid + i - 1]
        clones == [i \in 1..n |->
                     ClonePres(template_pres_nodes[i], created_pres_ids[i],
                               data_node_id, editable_node_count)]
        textIdx == {i \in 1..n : template_pres_nodes[i].presName = "textRect"}
        textRect_pres_id ==
          IF textIdx = {} THEN Absent
          ELSE created_pres_ids[CHOOSE i \in textIdx : \A j \in textIdx : j <= i]
        s1 == [s EXCEPT !.ptLst = s.ptLst \o clones, !.uuid = s.uuid + n]
        s2 == _create_presentation_connections_from_template(
                 s1, created_pres_ids, template_pres_nodes)
    IN  IF textRect_pres_id # Absent
        THEN _create_presof_connection(s2, data_node_id, textRect_pres_id)
        ELSE s2

\* A _remove_pres_nodes that removes nothing.
_remove_pres_nodes_none(pts, node_id) == pts

\* _remove_pres_nodes: drop the pres points associated with node_id.
_remove_pres_nodes(pts, node_id) ==
  SelectSeq(pts, LAMBDA p : ~(p.type = "pres" /\ p.presAssocID = node_id))

\* _remove_transition_nodes: drop the transition points no connection names
\* as parTransId or sibTransId; nothing happens without a cxnLst.
_remove_transition_nodes(s) ==
  IF ~s.hasCxnLst THEN s
  ELSE
    LET trans_ids_in_use ==
          ({s.cxnLst[i].parTransId : i \in 1..Len(s.cxnLst)} \cup
           {s.cxnLst[i].sibTransId : i \in 1..Len(s.cxnLst)}) \ {Absent}
    IN  [s EXCEPT !.ptLst = SelectSeq(s.ptLst, LAMBDA p :
              ~(p.type \in {"parTrans", "sibTrans"}
                /\ p.modelId \notin trans_ids_in_use))]

remove_node_structure(s, node_id) ==
  _remove_transition_nodes([s EXCEPT !.ptLst = _remove_pres_nodes(s.ptLst, node_id)])

-----------------------------------------------------------------------------
(* SmartArtConnectionManager.                                              *)

\* A create_connection that gives every new connection srcOrd 0.
create_connection_srcOrd0(cxns, parent_id, node_id, cxn_id, par_trans_id, sib_trans_id) ==
  Append(cxns,
    [NewCxn EXCEPT !.modelId = cxn_id, !.srcId = parent_id,
                   !.destId = node_id, !.srcOrd = 0,
                   !.destOrd = 0, !.parTransId = par_trans_id,
                   !.sibTransId = sib_trans_id])

\* A counting loop that takes the connections of every type sourced at
\* the parent.
existing_cxns_any_type(cxns, parent_id) ==
  SelectSeq(cxns, LAMBDA c : c.srcId = parent_id)

\* The first half of create_connection: the untyped (parent-child)
\* connections already sourced at the parent.
existing_cxns(cxns, parent_id) ==
  SelectSeq(cxns, LAMBDA c : c.srcId = parent_id /\ c.type = "")

\* The second half of create_connection: the new connection is appended
\* with the srcOrd computed from the first half; destOrd is 0.
append_connection(cxns, parent_id, node_id, cxn_id, par_trans_id, sib_trans_id, src_ord) ==
  Append(cxns,
    [NewCxn EXCEPT !.modelId = cxn_id, !.srcId = parent_id,
                   !.destId = node_id, !.srcOrd = src_ord,
                   !.destOrd = 0, !.parTransId = par_trans_id,
                   !.sibTransId = sib_trans_id])

\* create_connection: srcOrd is the number of untyped (parent-child)
\* connections already sourced at the parent; destOrd is 0.
create_connection(cxns, parent_id, node_id, cxn_id, par_trans_id, sib_trans_id) ==
  append_connection(cxns, parent_id, node_id, cxn_id, par_trans_id, sib_trans_id,
                    Len(existing_cxns(cxns, parent_id)))

\* remove_node_connections: drop every connection touching node_id.
remove_node_connections(s, node_id) ==
  IF ~s.hasCxnLst THEN s
  ELSE [s EXCEPT !.cxnLst =
          SelectSeq(s.cxnLst, LAMBDA c : ~(c.srcId = node_id \/ c.destId = node_id))]

\* CT_CxnList.cleanup_orphaned_connections: drop the connections whose srcId
\* or destId is not in valid_node_ids.
cxnLst_cleanup_orphaned_connections(cxns, valid_node_ids) ==
  SelectSeq(cxns, LAMBDA c :
    ~(c.srcId \notin valid_node_ids \/ c.destId \notin valid_node_ids))

\* The map both clean-up and normalization build: destId -> srcOrd over the
\* untyped connections sourced at the doc point (the last one wins).
SrcOrdMapDomain(cxns, doc_node_id) ==
  {cxns[i].destId : i \in {j \in 1..Len(cxns) :
      cxns[j].type = "" /\ cxns[j].srcId = doc_node_id
      /\ cxns[j].destId # Absent /\ cxns[j].srcOrd # NoOrd}}

SrcOrdMap(cxns, doc_node_id, d) ==
  LET hits == {j \in 1..Len(cxns) :
                 cxns[j].type = "" /\ cxns[j].srcId = doc_node_id
                 /\ cxns[j].destId = d /\ cxns[j].srcOrd # NoOrd}
  IN  cxns[CHOOSE j \in hits : \A k \in hits : k <= j].srcOrd

\* A cleanup_orphaned_connections that looks at srcId only.
cleanup_orphaned_connections_src_only(s) ==
  IF ~s.hasPtLst \/ ~s.hasCxnLst THEN s
  ELSE
    LET valid_node_ids == PtIds(s.ptLst)
        kept == SelectSeq(s.cxnLst, LAMBDA c : c.srcId \in valid_node_ids)
        doc_node_id == get_doc_node(s)
        dom == SrcOrdMapDomain(kept, doc_node_id)
    IN  IF doc_node_id = Absent THEN [s EXCEPT !.cxnLst = kept]
        ELSE [s EXCEPT !.cxnLst =
                [i \in 1..Len(kept) |->
                   IF kept[i].type = "presOf" /\ kept[i].srcId \in dom
                   THEN [kept[i] EXCEPT
                           !.srcOrd = SrcOrdMap(kept, doc_node_id, kept[i].srcId)]
                   ELSE kept[i]]]

\* cleanup_orphaned_connections: drop the connections with a missing
\* endpoint, then copy each root child's parent-child srcOrd onto the presOf
\* connections sourced at it.
cleanup_orphaned_connections(s) ==
  IF ~s.hasPtLst \/ ~s.hasCxnLst THEN s
  ELSE
    LET valid_node_ids == PtIds(s.ptLst)
        kept == SelectSeq(s.cxnLst, LAMBDA c :
                  c.srcId \in valid_node_ids /\ c.destId \in valid_node_ids)
        doc_node_id == get_doc_node(s)
        dom == SrcOrdMapDomain(kept, doc_node_id)
    IN  IF doc_node_id = Absent THEN [s EXCEPT !.cxnLst = kept]
        ELSE [s EXCEPT !.cxnLst =
                [i \in 1..Len(kept) |->
                   IF kept[i].type = "presOf" /\ kept[i].srcId \in dom
                   THEN [kept[i] EXCEPT
                           !.srcOrd = SrcOrdMap(kept, doc_node_id, kept[i].srcId)]
                   ELSE kept[i]]]

-----------------------------------------------------------------------------
(* SmartArt: the normalization pass.                                       *)

\* An _update_pres_style_cnt that refreshes every pres point.
_update_pres_style_cnt_every_pres(pts) ==
  LET data_node_count == Cardinality({i \in 1..Len(pts) : IsCounted(pts[i])})
  IN  [i \in 1..Len(pts) |->
         IF pts[i].type = "pres"
         THEN [pts[i] EXCEPT !.presStyleCnt = data_node_count]
         ELSE pts[i]]

\* _update_pres_style_cnt: presStyleCnt of every pictRect and textRect pres
\* point becomes the number of counted points.
_update_pres_style_cnt(pts) ==
  LET data_node_count == Cardinality({i \in 1..Len(pts) : IsCounted(pts[i])})
  IN  [i \in 1..Len(pts) |->
         IF pts[i].type = "pres" /\ pts[i].presName \in {"pictRect", "textRect"}
         THEN [pts[i] EXCEPT !.presStyleCnt = data_node_count]
         ELSE pts[i]]

\* _remove_unreferenced_pres_nodes: drop the pres points that are neither
\* srcId nor destId of a connection.
_remove_unreferenced_pres_nodes(pts, cxns) ==
  LET referenced_ids ==
        ({cxns[i].srcId : i \in 1..Len(cxns)} \cup
         {cxns[i].destId : i \in 1..Len(cxns)}) \ {Absent}
  IN  SelectSeq(pts, LAMBDA p :
        ~(p.modelId # Absent /\ p.modelId \notin referenced_ids /\ p.type = "pres"))

\* _ensure_connection_ids: connections without an id get max+1, max+2, ...
\* in list order.
_ensure_connection_ids(cxns) ==
  LET present == {cxns[i].id : i \in 1..Len(cxns)} \ {Absent}
      max_id  == IF present = {} THEN 0
                 ELSE CHOOSE m \in present : \A x \in present : x <= m
      missingBefore(i) == Cardinality({j \in 1..(i-1) : cxns[j].id = Absent})
  IN  [i \in 1..Len(cxns) |->
         IF cxns[i].id = Absent
         THEN [cxns[i] EXCEPT !.id = max_id + 1 + missingBefore(i)]
         ELSE cxns[i]]

\* list.sort(key=data_order) of connection indices: a stable sort.
RECURSIVE SortByOrder(_, _)
SortByOrder(idxs, ord) ==
  IF idxs = <<>> THEN <<>>
  ELSE LET init == SortByOrder(SubSeq(idxs, 1, Len(idxs) - 1), ord)
           x    == idxs[Len(idxs)]
           k    == Cardinality({i \in 1..Len(init) : ord[init[i]] <= ord[x]})
       IN  SubSeq(init, 1, k) \o <<x>> \o SubSeq(init, k + 1, Len(init))

\* The presParOf renumbering of synchronize_presof_ordering: among the
\* presParOf connections sourced at the Name0 pres point, those whose
\* destination is no compNode of a root child are removed, the others get
\* srcOrd 0..n-1 in the order of their data nodes' srcOrd.
RenumberPresParOf(pts, cxns, doc_node_id) ==
  LET n0 == FirstIdx(pts, LAMBDA p : p.type = "pres" /\ p.presName = "Name0")
      parent_pres_id == IF n0 = 0 THEN Absent ELSE pts[n0].modelId
  IN
  IF parent_pres_id = Absent THEN cxns
  ELSE
    LET dom == SrcOrdMapDomain(cxns, doc_node_id)
        cand == {i \in 1..Len(cxns) :
                   cxns[i].type = "presParOf" /\ cxns[i].srcId = parent_pres_id}
        destPt(i) == FirstIdx(pts, LAMBDA p : p.modelId = cxns[i].destId)
        keep == {i \in cand : destPt(i) # 0
                   /\ pts[destPt(i)].presName = "compNode"
                   /\ pts[destPt(i)].presAssocID \in dom}
        drop == {i \in cand : destPt(i) # 0 /\ i \notin keep}
        ord  == [i \in 1..Len(cxns) |->
                   IF i \in keep
                   THEN SrcOrdMap(cxns, doc_node_id, pts[destPt(i)].presAssocID)
                   ELSE NoOrd]
        keepSeq == SelectSeq([i \in 1..Len(cxns) |-> i], LAMBDA i : i \in keep)
        sorted  == SortByOrder(keepSeq, ord)
        newOrd(i) == IndexOf(sorted, i) - 1
        renum == [i \in 1..Len(cxns) |->
                    IF i \in keep THEN [cxns[i] EXCEPT !.srcOrd = newOrd(i)]
                    ELSE cxns[i]]
        live == SelectSeq([i \in 1..Len(cxns) |-> i], LAMBDA i : i \notin drop)
    IN  [k \in 1..Len(live) |-> renum[live[k]]]

\* synchronize_presof_ordering, the normalization pass.
synchronize_presof_ordering(s) ==
  IF ~s.hasPtLst \/ ~s.hasCxnLst THEN s
  ELSE
    LET p1 == _update_pres_style_cnt(s.ptLst)
        p2 == _remove_unreferenced_pres_nodes(p1, s.cxnLst)
        s3 == _remove_transition_nodes([s EXCEPT !.ptLst = p2])
        doc_node_id == get_doc_node(s3)
    IN  IF doc_node_id = Absent THEN s3
        ELSE [s3 EXCEPT !.cxnLst =
                _ensure_connection_ids(
                   RenumberPresParOf(s3.ptLst, s3.cxnLst, doc_node_id))]

-----------------------------------------------------------------------------
(* SmartArt: the facade.                                                   *)

\* Parent selectors of add_node: None, "root", or a SmartArtNode.
SelNone == [kind |-> "none", arg |-> Absent]
SelRoot == [kind |-> "root", arg |-> Absent]
SelNode(p) == [kind |-> "node", arg |-> p]

\* A _resolve_parent_node that, for None, takes the parent of the first
\* editable node instead of the last.
_resolve_parent_node_first(s, parent) ==
  IF parent.kind = "root" THEN get_doc_node(s)
  ELSE IF parent.kind = "node" THEN parent.arg
  ELSE
    LET en == editable_nodes(s)
    IN  IF en = <<>> THEN get_doc_node(s)
        ELSE
          LET first_node_id == en[1].modelId
              i == FirstIdx(s.cxnLst, LAMBDA c :
                     c.destId = first_node_id /\ c.type = ""
                     /\ c.srcId \in PtIds(pt_lst(s)))
          IN  IF i # 0 THEN s.cxnLst[i].srcId ELSE get_doc_node(s)

\* _resolve_parent_node: modelId of the element the new node hangs under,
\* Absent for None.
_resolve_parent_node(s, parent) ==
  IF parent.kind = "root" THEN get_doc_node(s)
  ELSE IF parent.kind = "node" THEN parent.arg
  ELSE
    LET en == editable_nodes(s)
    IN  IF en = <<>> THEN get_doc_node(s)
        ELSE
          LET last_node_id == en[Len(en)].modelId
              i == FirstIdx(s.cxnLst, LAMBDA c :
                     c.destId = last_node_id /\ c.type = ""
                     /\ c.srcId \in PtIds(pt_lst(s)))
          IN  IF i # 0 THEN s.cxnLst[i].srcId ELSE get_doc_node(s)

\* An _auto_create_presentation_nodes that takes as the template the first
\* point of any type, other than the new one, that has a pres point.
_auto_create_presentation_nodes_any_point(s, new_node_id) ==
  LET en == s.ptLst
      i  == FirstIdx(en, LAMBDA e : e.modelId # new_node_id
                              /\ PresNodesOf(s.ptLst, e.modelId) # <<>>)
  IN  IF i = 0 THEN s
      ELSE create_presentation_nodes(s, new_node_id, en[i].modelId)

\* _auto_create_presentation_nodes: the first editable node other than the
\* new one that has a pres point is the template.
_auto_create_presentation_nodes(s, new_node_id) ==
  LET en == editable_nodes(s)
      i  == FirstIdx(en, LAMBDA e : e.modelId # new_node_id
                              /\ PresNodesOf(s.ptLst, e.modelId) # <<>>)
  IN  IF i = 0 THEN s
      ELSE create_presentation_nodes(s, new_node_id, en[i].modelId)

\* set_text_preserve_formatting (pptx.text.text): the paragraph's text
\* becomes the new text.
set_text_preserve_formatting(p_text, value) == value

\* SmartArtNode.text setter: writes the a:p paragraph of dgm:t, and returns
\* without writing when the point has no dgm:t or its dgm:t has no a:p.
set_text(pts, node_id, value) ==
  [i \in 1..Len(pts) |->
     IF pts[i].modelId = node_id /\ pts[i].t = "p"
     THEN [pts[i] EXCEPT !.p_text = set_text_preserve_formatting(@, value)]
     ELSE pts[i]]

\* CT_Pt.text_value, the SmartArtNode.text getter: reads dgm:t/dgm:v.
text_value(pt) == pt.v_text

\* add_node up to the presentation cloning: parent resolved, the node and
\* its transitions created, the parent-child connection made.
AddBeforeClone(s, parent) ==
  LET s0 == [s EXCEPT !.hasCxnLst = TRUE]
      parent_node == _resolve_parent_node(s0, parent)
      s1 == [s0 EXCEPT !.hasPtLst = TRUE]
      node_id == s.uuid
      cxn_id == s.uuid + 1
      par_trans_id == s.uuid + 2
      sib_trans_id == s.uuid + 3
      s2 == [s1 EXCEPT
               !.ptLst = create_node_with_transitions(
                            s1.ptLst, node_id, cxn_id, par_trans_id, sib_trans_id),
               !.uuid = s.uuid + 4]
      s3 == IF parent_node # Absent
            THEN [s2 EXCEPT !.cxnLst = create_connection(
                     s2.cxnLst, parent_node, node_id, cxn_id,
                     par_trans_id, sib_trans_id)]
            ELSE s2
  IN  s3

\* add_node up to the normalization pass.
AddStructure(s, parent) ==
  _auto_create_presentation_nodes(AddBeforeClone(s, parent), s.uuid)

\* add_node(text, parent); the node returned is the one with modelId s.uuid.
add_node(s, text, parent) ==
  LET s5 == synchronize_presof_ordering(AddStructure(s, parent))
  IN  IF text # "" THEN [s5 EXCEPT !.ptLst = set_text(s5.ptLst, s.uuid, text)]
      ELSE s5

\* The calls add_node makes, in order; parent_node is the parent it
\* resolved, and create_connection is called only when there is one.
AddSteps(parent_node) ==
  <<"resolve_parent", "create_node">>
    \o (IF parent_node # Absent THEN <<"create_connection">> ELSE <<>>)
    \o <<"create_presentation", "synchronize">>

\* editable_nodes[index] with Python's indexing: 0 when out of range.
PyIndex(n, index) ==
  IF index >= 0 /\ index < n THEN index + 1
  ELSE IF index < 0 /\ index >= 0 - n THEN n + index + 1
  ELSE 0

\* The error remove_node raises before it removes anything, "" if none: no
\* point list, an index out of range, a node whose point is not in the list.
RemoveCheck(s, node) ==
  IF ~s.hasPtLst THEN "ValueError"
  ELSE IF node.kind = "index"
          /\ PyIndex(Len(editable_nodes(s)), node.arg) = 0 THEN "IndexError"
  ELSE IF node.kind = "node" /\ node.arg \notin PtIds(s.ptLst) THEN "ValueError"
  ELSE ""

\* modelId of the node remove_node resolves.
RemoveTarget(s, node) ==
  IF node.kind = "index"
  THEN editable_nodes(s)[PyIndex(Len(editable_nodes(s)), node.arg)].modelId
  ELSE node.arg

\* remove_node past its checks, up to ptLst.remove_pt: the connections of the
\* node and its structure removed.
RemoveStructure(s, node_id) ==
  remove_node_structure(remove_node_connections(s, node_id), node_id)

\* The error remove_node raises for node (an index or a handle), "" if none.
\* ptLst.remove_pt raises ValueError when remove_node_structure has removed
\* the node's own point: the point is no longer a child of the list.
RemoveError(s, node) ==
  IF RemoveCheck(s, node) # "" THEN RemoveCheck(s, node)
  ELSE IF RemoveTarget(s, node)
            \notin PtIds(RemoveStructure(s, RemoveTarget(s, node)).ptLst)
  THEN "ValueError"
  ELSE ""

\* The graph a remove_node call that raises leaves: as it was when a check
\* failed, with connections and structure removed when remove_pt raised.
RemoveAborted(s, node) ==
  IF RemoveCheck(s, node) # "" THEN s
  ELSE RemoveStructure(s, RemoveTarget(s, node))

\* remove_node past its checks, up to the orphan clean-up.
RemoveBeforeCleanup(s, node_id) ==
  LET s2 == RemoveStructure(s, node_id)
  IN  [s2 EXCEPT !.ptLst = SelectSeq(s2.ptLst, LAMBDA p : p.modelId # node_id)]

\* remove_node past its checks.
remove_node(s, node_id) ==
  cleanup_orphaned_connections(RemoveBeforeCleanup(s, node_id))

\* The sub-steps remove_node runs, in order.
RemoveSteps == <<"remove_node_connections", "remove_node_structure",
                 "remove_pt", "cleanup_orphaned_connections">>

\* The sub-steps a remove_node call that raises has run.
RemoveAbortedSteps(s, node) ==
  IF RemoveCheck(s, node) # "" THEN <<>>
  ELSE <<"remove_node_connections", "remove_node_structure">>

-----------------------------------------------------------------------------
(* SmartArt: images.                                                       *)

\* The image indicators that occur in name.lower(), over the names in use.
IndicatorsIn(name) ==
  CASE name = "pictRect"    -> {"pict", "pic"}
    [] name = "fgImgPlace1" -> {"img", "fgimgplace"}
    [] OTHER                -> {}

image_indicators == {"pict", "image", "img", "pic", "picture", "fgimgplace"}

\* SmartArtNode.has_image_placeholder: the node's element is in a point
\* list and a pres point associated with it has an indicator in its name.
has_image_placeholder(s, node_id) ==
  /\ node_id \in PtIds(pt_lst(s))
  /\ \E i \in 1..Len(pt_lst(s)) :
       /\ pt_lst(s)[i].type = "pres"
       /\ pt_lst(s)[i].presAssocID = node_id
       /\ IndicatorsIn(pt_lst(s)[i].presName) \cap image_indicators # {}

\* _Relationships._add_relationship: a new relationship with the next rId.
_add_relationship(rs, target) ==
  Append(rs, [rId |-> Len(rs) + 1, target |-> target])

\* The fill embed_image_for_node writes: every pres point associated with
\* the node whose name holds "pict" gets its spPr children replaced by one
\* a:blipFill whose a:blip embeds r_id.
WriteBlipFill(pts, node_id, r_id) ==
  [i \in 1..Len(pts) |->
     IF pts[i].type = "pres" /\ pts[i].presAssocID = node_id
        /\ "pict" \in IndicatorsIn(pts[i].presName)
     THEN [pts[i] EXCEPT !.spPr = "blipFill", !.embed = r_id]
     ELSE pts[i]]

\* An embed_image_for_node without the image placeholder check.
EmbedError_no_check(s, node_id, host_ok) == IF ~host_ok THEN "HostError" ELSE ""

\* The error embed_image_for_node raises, "" if none: ValueError without an
\* image placeholder, else whatever get_or_add_image_part raises.
EmbedError(s, node_id, host_ok) ==
  IF ~has_image_placeholder(s, node_id) THEN "ValueError"
  ELSE IF ~host_ok THEN "HostError"
  ELSE ""

\* An embed_image_for_node that reuses the relationship to the same image.
embed_image_for_node_get_or_add(s, rs, node_id, image_file) ==
  LET old == FirstIdx(rs, LAMBDA r : r.target = image_file)
      rs1 == IF old # 0 THEN rs ELSE _add_relationship(rs, image_file)
      r_id == IF old # 0 THEN rs[old].rId ELSE rs1[Len(rs1)].rId
  IN  [graph |-> [s EXCEPT !.ptLst = WriteBlipFill(pt_lst(s), node_id, r_id)],
       rels |-> rs1, rId |-> r_id]

\* embed_image_for_node past its checks: the graph, the relationships and
\* the rId returned.
embed_image_for_node(s, rs, node_id, image_file) ==
  LET rs1 == _add_relationship(rs, image_file)
      r_id == rs1[Len(rs1)].rId
  IN  [graph |-> [s EXCEPT !.ptLst = WriteBlipFill(pt_lst(s), node_id, r_id)],
       rels |-> rs1, rId |-> r_id]

\* An image_path setter that stores the path only once the image is embedded.
set_image_path_store_last(s, rs, node_id, value, host_ok) ==
  LET stored == [s EXCEPT !.ptLst =
                   [i \in 1..Len(s.ptLst) |->
                      IF s.ptLst[i].modelId = node_id
                      THEN [s.ptLst[i] EXCEPT !.imagePath = value]
                      ELSE s.ptLst[i]]]
  IN  IF value = "" THEN [graph |-> stored, rels |-> rs, rId |-> Absent, warned |-> FALSE]
      ELSE IF EmbedError(s, node_id, host_ok) # ""
      THEN [graph |-> s, rels |-> rs, rId |-> Absent, warned |-> TRUE]
      ELSE LET e == embed_image_for_node(stored, rs, node_id, value)
           IN  [graph |-> e.graph, rels |-> e.rels, rId |-> e.rId, warned |-> FALSE]

\* The image_path setter past its placeholder check: None ("") deletes the
\* attribute; a path is stored, then embedded, and an error of the embedding
\* becomes a warning.
set_image_path(s, rs, node_id, value, host_ok) ==
  LET stored == [s EXCEPT !.ptLst =
                   [i \in 1..Len(s.ptLst) |->
                      IF s.ptLst[i].modelId = node_id
                      THEN [s.ptLst[i] EXCEPT !.imagePath = value]
                      ELSE s.ptLst[i]]]
  IN  IF value = "" THEN [graph |-> stored, rels |-> rs, rId |-> Absent, warned |-> FALSE]
      ELSE IF EmbedError(stored, node_id, host_ok) # ""
      THEN [graph |-> stored, rels |-> rs, rId |-> Absent, warned |-> TRUE]
      ELSE LET e == embed_image_for_node(stored, rs, node_id, value)
           IN  [graph |-> e.graph, rels |-> e.rels, rId |-> e.rId, warned |-> FALSE]

-----------------------------------------------------------------------------
(* smartart_sync: the helpers that drive a SmartArt.                       *)

\* str.strip, over the texts in use.
strip(text) == IF text \in {"", " "} THEN "" ELSE text

\* SmartArtNode.image_path getter: the imagePath attribute of dgm:prSet,
\* None ("") without one.
image_path(s, node_id) ==
  LET i == FirstIdx(pt_lst(s), LAMBDA q : q.modelId = node_id)
  IN  IF i = 0 THEN "" ELSE pt_lst(s)[i].imagePath

\* SmartArtNode.text getter of the node with this modelId.
node_text(s, node_id) ==
  LET i == FirstIdx(pt_lst(s), LAMBDA q : q.modelId = node_id)
  IN  IF i = 0 THEN "" ELSE text_value(pt_lst(s)[i])

\* modelIds of smartart.editable_nodes, the list the helpers walk.
current_nodes(s) == [i \in 1..Len(editable_nodes(s)) |-> editable_nodes(s)[i].modelId]

\* The loop of sync_smartart_text from position i of zip_longest(nodes,
\* text_list): a text with a node is set on it, a text without a node is
\* handed to add_node, a node without a text is passed over.
RECURSIVE SyncTextFrom(_, _, _, _)
SyncTextFrom(s, nodes, text_list, i) ==
  IF i > Len(nodes) /\ i > Len(text_list) THEN s
  ELSE IF i <= Len(nodes) /\ i <= Len(text_list)
  THEN SyncTextFrom([s EXCEPT !.ptLst = set_text(s.ptLst, nodes[i], text_list[i])],
                    nodes, text_list, i + 1)
  ELSE IF i > Len(nodes)
  THEN SyncTextFrom(add_node(s, text_list[i], SelNone), nodes, text_list, i + 1)
  ELSE SyncTextFrom(s, nodes, text_list, i + 1)

\* sync_smartart_text(smartart, text_list)
sync_smartart_text(s, text_list) == SyncTextFrom(s, current_nodes(s), text_list, 1)

\* The calls sync_smartart_text makes on n nodes and m texts, in order.
SyncTextSteps(n, m) ==
  [i \in 1..m |-> IF i <= n THEN "set_text" ELSE "add_node"]

\* body applied to the value of x, which is computed once.
Bind(x, body(_)) == CHOOSE v \in {body(y) : y \in {x}} : TRUE

\* One turn of the loop of sync_smartart_images, at position i of
\* zip_longest(nodes, image_list): an image without a node gets a node from
\* add_node(), which is removed again when it has no image placeholder; a
\* node without an image placeholder is passed over; an image with a node
\* that has one is set as its image_path; a node without an image is passed
\* over.
SyncImagesTurn(s, rs, nodes, image_list, i, host_ok) ==
  IF i > Len(nodes)
  THEN Bind(add_node(s, "", SelNone), LAMBDA added :
         LET node == [kind |-> "node", arg |-> s.uuid]
         IN  IF ~has_image_placeholder(added, node.arg)
             THEN IF RemoveError(added, node) # ""
                  THEN [graph |-> RemoveAborted(added, node), rels |-> rs,
                        err |-> RemoveError(added, node)]
                  ELSE [graph |-> remove_node(added, node.arg), rels |-> rs, err |-> ""]
             ELSE Bind(set_image_path(added, rs, node.arg, image_list[i], host_ok),
                       LAMBDA r : [graph |-> r.graph, rels |-> r.rels, err |-> ""]))
  ELSE IF has_image_placeholder(s, nodes[i]) /\ i <= Len(image_list)
  THEN Bind(set_image_path(s, rs, nodes[i], image_list[i], host_ok),
            LAMBDA r : [graph |-> r.graph, rels |-> r.rels, err |-> ""])
  ELSE [graph |-> s, rels |-> rs, err |-> ""]

\* The loop of sync_smartart_images from position i; an error of
\* remove_node ends it.
RECURSIVE SyncImagesFrom(_, _, _, _, _, _)
SyncImagesFrom(s, rs, nodes, image_list, i, host_ok) ==
  IF i > Len(nodes) /\ i > Len(image_list) THEN [graph |-> s, rels |-> rs, err |-> ""]
  ELSE Bind(SyncImagesTurn(s, rs, nodes, image_list, i, host_ok), LAMBDA r :
         IF r.err # "" THEN r
         ELSE SyncImagesFrom(r.graph, r.rels, nodes, image_list, i + 1, host_ok))

\* sync_smartart_images(smartart, image_list): the graph and the
\* relationships left and the error raised, "" if none; host_ok: the
\* package can read the image files.
sync_smartart_images(s, rs, image_list, host_ok) ==
  SyncImagesFrom(s, rs, current_nodes(s), image_list, 1, host_ok)

\* The loop of remove_empty_smartart_nodes from position i of nodes: a node
\* with neither image nor text is handed to remove_node, whose error ends
\* the loop.
RECURSIVE RemoveEmptyFrom(_, _, _)
RemoveEmptyFrom(s, nodes, i) ==
  IF i > Len(nodes) THEN [graph |-> s, err |-> ""]
  ELSE
    LET has_image == has_image_placeholder(s, nodes[i]) /\ image_path(s, nodes[i]) # ""
        has_text == strip(node_text(s, nodes[i])) # ""
        node == [kind |-> "node", arg |-> nodes[i]]
    IN  IF has_image \/ has_text THEN RemoveEmptyFrom(s, nodes, i + 1)
        ELSE IF RemoveError(s, node) # ""
        THEN [graph |-> RemoveAborted(s, node), err |-> RemoveError(s, node)]
        ELSE RemoveEmptyFrom(remove_node(s, nodes[i]), nodes, i + 1)

\* remove_empty_smartart_nodes(smartart): the graph left and the error
\* raised, "" if none.
remove_empty_smartart_nodes(s) == RemoveEmptyFrom(s, current_nodes(s), 1)

-----------------------------------------------------------------------------
(* Documents a DiagramDataPart is loaded from.                             *)

Pres(model_id, assoc, name, idx, cnt, sp) ==
  [NewPt(model_id, "pres") EXCEPT !.presAssocID = assoc, !.presName = name,
      !.presStyleIdx = idx, !.presStyleCnt = cnt, !.spPr = sp]

Cxn(model_id, type, src, dest, srcOrd, destOrd, par, sib, presId) ==
  [NewCxn EXCEPT !.modelId = model_id, !.type = type, !.srcId = src,
      !.destId = dest, !.srcOrd = srcOrd, !.destOrd = destOrd,
      !.parTransId = par, !.sibTransId = sib, !.presId = presId]

\* A dataModel with neither list.
EmptyDoc == State(<<>>, <<>>, FALSE, FALSE, 1)

\* Only a document root point.
DocOnly == State(<<TextPt(1, "doc")>>, <<>>, TRUE, TRUE, 2)

\* A picture list with one item: doc 1, item 2 with its transitions 3 and 4,
\* the Name0 pres point 5 and the item's compNode 6, pictRect 7, textRect 8.
PictureList ==
  State(<< TextPt(1, "doc"), TextPt(2, "node"),
           [TextPt(3, "parTrans") EXCEPT !.cxnId = 9],
           [TextPt(4, "sibTrans") EXCEPT !.cxnId = 9],
           Pres(5, 1, "Name0", NoOrd, 0, ""),
           Pres(6, 2, "compNode", NoOrd, 0, ""),
           Pres(7, 2, "pictRect", 0, 1, "rect"),
           Pres(8, 2, "textRect", 0, 1, "") >>,
        << Cxn(9, "", 1, 2, 0, 0, 3, 4, Absent),
           Cxn(10, "presOf", 2, 8, 0, 0, Absent, Absent, 1),
           Cxn(11, "presOf", 1, 5, 0, 0, Absent, Absent, 1),
           Cxn(12, "presParOf", 5, 6, 0, 0, Absent, Absent, 1),
           Cxn(13, "presParOf", 6, 7, 0, 0, Absent, Absent, 1),
           Cxn(14, "presParOf", 6, 8, 1, 0, Absent, Absent, 1) >>,
        TRUE, TRUE, 15)

\* A list written by another tool: an assistant point 2, item 3 with its
\* transitions 4 and 5 and textRect 8, a spacer pres point 7 under Name0 6,
\* and a connection 14 to a point 15 that is no longer there.
LegacyList ==
  State(<< TextPt(1, "doc"), TextPt(2, "asst"), TextPt(3, "node"),
           [TextPt(4, "parTrans") EXCEPT !.cxnId = 10],
           [TextPt(5, "sibTrans") EXCEPT !.cxnId = 10],
           Pres(6, 1, "Name0", NoOrd, 0, ""),
           Pres(7, 5, "sibTrans", NoOrd, 0, ""),
           Pres(8, 3, "textRect", 0, 1, "") >>,
        << Cxn(9, "", 1, 2, 0, 0, Absent, Absent, Absent),
           Cxn(10, "", 1, 3, 1, 0, 4, 5, Absent),
           Cxn(11, "presOf", 3, 8, 0, 0, Absent, Absent, 1),
           Cxn(12, "presOf", 1, 6, 0, 0, Absent, Absent, 1),
           Cxn(13, "presParOf", 6, 7, 0, 0, Absent, Absent, 1),
           Cxn(14, "", 3, 15, 0, 0, Absent, Absent, Absent) >>,
        TRUE, TRUE, 16)

\* A picture accent list with one item: as the picture list, the picture
\* placeholder being the pres point 7 named fgImgPlace1.
AccentList ==
  State(<< TextPt(1, "doc"), TextPt(2, "node"),
           [TextPt(3, "parTrans") EXCEPT !.cxnId = 9],
           [TextPt(4, "sibTrans") EXCEPT !.cxnId = 9],
           Pres(5, 1, "Name0", NoOrd, 0, ""),
           Pres(6, 2, "compNode", NoOrd, 0, ""),
           Pres(7, 2, "fgImgPlace1", 0, 1, "rect"),
           Pres(8, 2, "textRect", 0, 1, "") >>,
        << Cxn(9, "", 1, 2, 0, 0, 3, 4, Absent),
           Cxn(10, "presOf", 2, 8, 0, 0, Absent, Absent, 1),
           Cxn(11, "presOf", 1, 5, 0, 0, Absent, Absent, 1),
           Cxn(12, "presParOf", 5, 6, 0, 0, Absent, Absent, 1),
           Cxn(13, "presParOf", 6, 7, 0, 0, Absent, Absent, 1),
           Cxn(14, "presParOf", 6, 8, 1, 0, Absent, Absent, 1) >>,
        TRUE, TRUE, 15)

\* A text list with one item whose presOf connection, the first of the
\* list, carries no presId; the presOf connection of the doc point has one.
MixedList ==
  State(<< TextPt(1, "doc"), TextPt(2, "node"),
           [TextPt(3, "parTrans") EXCEPT !.cxnId = 9],
           [TextPt(4, "sibTrans") EXCEPT !.cxnId = 9],
           Pres(5, 1, "Name0", NoOrd, 0, ""),
           Pres(8, 2, "textRect", 0, 1, "") >>,
        << Cxn(9, "", 1, 2, 0, 0, 3, 4, Absent),
           Cxn(10, "presOf", 2, 8, 0, 0, Absent, Absent, Absent),
           Cxn(11, "presOf", 1, 5, 0, 0, Absent, Absent, 1) >>,
        TRUE, TRUE, 15)

\* The picture list with one more presParOf connection under Name0, to a
\* point 20 that is not in the list.
StaleList ==
  [PictureList EXCEPT
     !.cxnLst = Append(PictureList.cxnLst,
                       Cxn(15, "presParOf", 5, 20, 1, 0, Absent, Absent, 1)),
     !.uuid = 21]

\* The picture list whose item 2 has an image path stored.
StoredList ==
  [PictureList EXCEPT !.ptLst[2].imagePath = "a.png"]

\* A list written by another tool whose two items have no text paragraph:
\* item 2 has no dgm:t, item 5 has a dgm:t without a:p.
BareList ==
  State(<< TextPt(1, "doc"), NewPt(2, "node"),
           [TextPt(3, "parTrans") EXCEPT !.cxnId = 8],
           [TextPt(4, "sibTrans") EXCEPT !.cxnId = 8],
           [NewPt(5, "node") EXCEPT !.t = "t"],
           [TextPt(6, "parTrans") EXCEPT !.cxnId = 9],
           [TextPt(7, "sibTrans") EXCEPT !.cxnId = 9] >>,
        << Cxn(8, "", 1, 2, 0, 0, 3, 4, Absent),
           Cxn(9, "", 1, 5, 1, 0, 6, 7, Absent) >>,
        TRUE, TRUE, 10)

Documents == {"empty", "docOnly", "pictureList", "legacyList", "accentList"}

\* DiagramDataPart.load: the dataModel parsed from the part's blob.
load(name) ==
  CASE name = "empty"       -> EmptyDoc
    [] name = "docOnly"     -> DocOnly
    [] name = "pictureList" -> PictureList
    [] name = "legacyList"  -> LegacyList
    [] name = "accentList"  -> AccentList
    [] name = "mixedList"   -> MixedList
    [] name = "staleList"   -> StaleList
    [] name = "storedList"  -> StoredList
    [] name = "bareList"    -> BareList

-----------------------------------------------------------------------------
(* The state machine.                                                      *)

Op(op, kind, arg, text, node, err, ran) ==
  [op |-> op, kind |-> kind, arg |-> arg, text |-> text, node |-> node,
   err |-> err, ran |-> ran]

\* No add_node call was the last call.
NoSnapshot == State(<<>>, <<>>, FALSE, FALSE, Absent)

\* No image call was the last call.
NoImg == [rId |-> Absent, warned |-> FALSE, refused |-> FALSE]

Install(s) ==
  /\ ptLst' = s.ptLst
  /\ cxnLst' = s.cxnLst
  /\ hasPtLst' = s.hasPtLst
  /\ hasCxnLst' = s.hasCxnLst
  /\ uuid' = s.uuid

\* No add_node calls run at once.
NoThreads == [serialized |-> TRUE, grain |-> "call", lock |-> 0, calls |-> <<>>]

InitGraph(names) ==
  \E name \in names :
    /\ origin = name
    /\ ptLst = load(name).ptLst
    /\ cxnLst = load(name).cxnLst
    /\ hasPtLst = load(name).hasPtLst
    /\ hasCxnLst = load(name).hasCxnLst
    /\ uuid = load(name).uuid
    /\ adds = 0
    /\ lastOp = Op("load", "none", Absent, "", Absent, "", <<>>)
    /\ before = NoSnapshot
    /\ rels = <<>>
    /\ imageOps = 0
    /\ lastImg = NoImg

InitFrom(names) == InitGraph(names) /\ threads = NoThreads

Init == InitFrom(Documents)

EditableIds == {editable_nodes(Cur)[i].modelId : i \in 1..Len(editable_nodes(Cur))}

\* SmartArt.add_node(text, parent), text one of texts, parent None, "root"
\* or a SmartArtNode whose point has one of the ids handles
AddNodeUnder(texts, max_adds, handles) ==
  /\ adds < max_adds
  /\ \E text \in texts, parent \in {SelNone, SelRoot} \cup {SelNode(p) : p \in handles} :
       /\ Install(add_node(Cur, text, parent))
       /\ lastOp' = Op("add", parent.kind, parent.arg, text, uuid, "",
                       AddSteps(_resolve_parent_node(
                                  [Cur EXCEPT !.hasCxnLst = TRUE], parent)))
       /\ before' = Cur
  /\ adds' = adds + 1
  /\ lastImg' = NoImg
  /\ UNCHANGED <<origin, rels, imageOps, threads>>

\* add_node given None, "root", an editable node or the node the last call
\* returned
AddNodeWith(texts, max_adds) ==
  AddNodeUnder(texts, max_adds, EditableIds \cup ({lastOp.node} \ {Absent}))

AddNode == AddNodeWith(Texts, MaxAdds)

\* SmartArt.remove_node(node), node an index or a SmartArtNode whose point
\* has one of the ids handles
RemoveNodeWith(handles) ==
  /\ \E node \in {[kind |-> "index", arg |-> i] : i \in (0 - 1)..Len(editable_nodes(Cur))}
                 \cup {[kind |-> "node", arg |-> p] : p \in handles} :
       LET err == RemoveError(Cur, node)
       IN  IF err # ""
           THEN /\ Install(RemoveAborted(Cur, node))
                /\ lastOp' = Op("remove", node.kind, node.arg, "", Absent, err,
                                RemoveAbortedSteps(Cur, node))
           ELSE /\ Install(remove_node(Cur, RemoveTarget(Cur, node)))
                /\ lastOp' = Op("remove", node.kind, node.arg, "",
                                RemoveTarget(Cur, node), "", RemoveSteps)
  /\ before' = NoSnapshot
  /\ lastImg' = NoImg
  /\ UNCHANGED <<origin, adds, rels, imageOps, threads>>

\* remove_node given an index or the node the last call returned
RemoveNode == RemoveNodeWith({lastOp.node} \ {Absent})

\* remove_node given an index, the node the last call returned or one of
\* SmartArt.nodes, which has a SmartArtNode for every point of the list
RemoveAnyNode == RemoveNodeWith(PtIds(ptLst) \cup ({lastOp.node} \ {Absent}))

\* SmartArt.synchronize_presof_ordering() called on its own
Synchronize ==
  /\ Install(synchronize_presof_ordering(Cur))
  /\ lastOp' = Op("sync", "none", Absent, "", Absent, "", <<"synchronize">>)
  /\ before' = NoSnapshot
  /\ lastImg' = NoImg
  /\ UNCHANGED <<origin, adds, rels, imageOps, threads>>

\* The node handles an image call is given: an editable node, or the node
\* of the last call (which may have been removed).
ImageHandles == EditableIds \cup ({lastOp.node} \ {Absent})

\* SmartArt.embed_image_for_node(node, image_file)
EmbedImage ==
  /\ imageOps < MaxImageOps
  /\ \E node_id \in ImageHandles, image_file \in Images, host_ok \in BOOLEAN :
       LET err == EmbedError(Cur, node_id, host_ok)
           e == embed_image_for_node(Cur, rels, node_id, image_file)
       IN  IF err # ""
           THEN /\ UNCHANGED <<ptLst, cxnLst, hasPtLst, hasCxnLst, uuid, rels>>
                /\ lastOp' = Op("embed", "node", node_id, image_file, node_id, err, <<>>)
                /\ lastImg' = [NoImg EXCEPT !.refused = (err = "HostError")]
           ELSE /\ Install(e.graph)
                /\ rels' = e.rels
                /\ lastOp' = Op("embed", "node", node_id, image_file, node_id, "",
                                <<"add_relationship", "blipFill">>)
                /\ lastImg' = [NoImg EXCEPT !.rId = e.rId]
  /\ imageOps' = imageOps + 1
  /\ before' = NoSnapshot
  /\ UNCHANGED <<origin, adds, threads>>

\* SmartArtNode.image_path = value, value a path or None ("")
SetImagePath ==
  /\ imageOps < MaxImageOps
  /\ \E node_id \in ImageHandles, value \in Images \cup {""}, host_ok \in BOOLEAN :
       IF ~has_image_placeholder(Cur, node_id)
       THEN /\ UNCHANGED <<ptLst, cxnLst, hasPtLst, hasCxnLst, uuid, rels>>
            /\ lastOp' = Op("image_path", "node", node_id, value, node_id,
                            "ValueError", <<>>)
            /\ lastImg' = NoImg
       ELSE LET r == set_image_path(Cur, rels, node_id, value, host_ok)
            IN  /\ Install(r.graph)
                /\ rels' = r.rels
                /\ lastOp' = Op("image_path", "node", node_id, value, node_id, "",
                                IF value = "" THEN <<"clear">>
                                ELSE IF r.warned THEN <<"store", "warn">>
                                ELSE <<"store", "add_relationship", "blipFill">>)
                /\ lastImg' = [rId |-> r.rId, warned |-> r.warned,
                               refused |-> (value # "" /\ ~host_ok)]
  /\ imageOps' = imageOps + 1
  /\ before' = NoSnapshot
  /\ UNCHANGED <<origin, adds, threads>>

Next == AddNode \/ RemoveNode \/ Synchronize

Spec == Init /\ [][Next]_vars

\* Runs with image calls: the documents whose items have pres points, and
\* the doc-only document, whose items have none.
ImageDocuments == {"docOnly", "pictureList", "accentList"}

InitImages == Init /\ origin \in ImageDocuments

\* SmartArt.add_node() with the default text
AddItem == AddNodeWith({""}, MaxImageAdds)

NextImages == AddItem \/ RemoveNode \/ EmbedImage \/ SetImagePath

SpecImages == InitImages /\ [][NextImages]_vars

\* Runs in which remove_node is given the nodes of SmartArt.nodes.
NodesDocuments == {"empty", "docOnly"}

InitNodes == InitFrom(NodesDocuments)

\* SmartArt.add_node() with the default text and the default parent or root
AddPlain == AddNodeWith({""}, MaxAdds)

NextNodes == AddPlain \/ RemoveAnyNode

SpecNodes == InitNodes /\ [][NextNodes]_vars

\* Runs in which add_node is given the nodes of SmartArt.nodes as parent.
ParentsDocuments == {"docOnly", "pictureList"}

InitParents == InitFrom(ParentsDocuments)

\* SmartArt.add_node(parent=node) with the default text, node None, "root",
\* the node the last call returned or one of SmartArt.nodes, which has a
\* SmartArtNode for every point of the list
AddUnderAnyNode ==
  AddNodeUnder({""}, MaxAdds, PtIds(ptLst) \cup ({lastOp.node} \ {Absent}))

NextParents == AddUnderAnyNode \/ RemoveNode

SpecParents == InitParents /\ [][NextParents]_vars

\* The facade calls on documents written by other tools: one whose presOf
\* connections do not all carry a presId, one with a presParOf connection
\* to a missing point.
CloneDocuments == {"mixedList", "staleList"}

InitCloner == InitFrom(CloneDocuments)

SpecCloner == InitCloner /\ [][Next]_vars

\* The helpers of smartart_sync on a SmartArt: texts synchronized, images
\* synchronized, empty nodes removed; in one of the documents an item has an image stored, in
\* another the items have no text paragraph.
SyncDocuments == {"empty", "docOnly", "storedList", "bareList"}

\* Lists of texts handed to sync_smartart_text.
TextLists == UNION {[1..n -> SyncTexts] : n \in 0..MaxTexts}

InitSync == InitFrom(SyncDocuments)

\* sync_smartart_text(smartart, text_list)
SyncText ==
  /\ \E text_list \in TextLists :
       LET n == Len(editable_nodes(Cur))
           added == IF Len(text_list) > n THEN Len(text_list) - n ELSE 0
       IN  /\ adds + added <= MaxAdds
           /\ Install(sync_smartart_text(Cur, text_list))
           /\ lastOp' = [op |-> "sync_text", kind |-> "none", arg |-> Absent,
                          text |-> "", node |-> Absent, err |-> "",
                          ran |-> SyncTextSteps(n, Len(text_list)),
                          text_list |-> text_list]
           /\ adds' = adds + added
  /\ before' = Cur
  /\ lastImg' = NoImg
  /\ UNCHANGED <<origin, rels, imageOps, threads>>

\* Lists of images handed to sync_smartart_images.
ImageLists == UNION {[1..n -> Images] : n \in 0..MaxImageOps}

\* sync_smartart_images(smartart, image_list)
SyncImages ==
  /\ \E image_list \in ImageLists, host_ok \in BOOLEAN :
       LET n == Len(editable_nodes(Cur))
           added == IF Len(image_list) > n THEN Len(image_list) - n ELSE 0
       IN  /\ adds + added <= MaxAdds
           /\ imageOps + Len(image_list) <= MaxImageOps
           /\ \E r \in {sync_smartart_images(Cur, rels, image_list, host_ok)} :
                /\ Install(r.graph)
                /\ rels' = r.rels
                /\ lastOp' = Op("sync_images", "none", Absent, "", Absent, r.err, <<>>)
           /\ adds' = adds + added
           /\ imageOps' = imageOps + Len(image_list)
  /\ before' = NoSnapshot
  /\ lastImg' = NoImg
  /\ UNCHANGED <<origin, threads>>

\* remove_empty_smartart_nodes(smartart)
RemoveEmpty ==
  /\ Install(remove_empty_smartart_nodes(Cur).graph)
  /\ lastOp' = Op("remove_empty", "none", Absent, "", Absent,
                  remove_empty_smartart_nodes(Cur).err, <<>>)
  /\ before' = Cur
  /\ lastImg' = NoImg
  /\ UNCHANGED <<origin, adds, rels, imageOps, threads>>

NextSync == SyncText \/ SyncImages \/ RemoveEmpty

SpecSync == InitSync /\ [][NextSync]_vars

-----------------------------------------------------------------------------
(* Two add_node calls on one SmartArt from two threads.  Nothing in the    *)
(* code locks: a thread can be switched between any two statements.  A     *)
(* step of a call is one statement that reads or writes something another  *)
(* call can tell apart, together with the statements after it that no      *)
(* other call can: those that touch only locals, and those that write      *)
(* what no statement of add_node reads back from a point or connection     *)
(* made by another call (modelId of an element whose type is not yet a     *)
(* transition type, cxnId, dgm:prSet, dgm:spPr, dgm:t, modelId, destId,    *)
(* srcOrd and destOrd of a connection).  The documents have both lists and *)
(* no pres point, so the parts of add_node that only read, or only write   *)
(* pres points and their connections, change nothing whenever they run and *)
(* are one step each; _resolve_parent_node finds the doc point whatever    *)
(* the other call has built, and is one step.  The four ids of a call are  *)
(* fresh and drawn in one step.  With serialized TRUE the callers hold a   *)
(* lock around the call; with grain "substep" a thread is switched only    *)
(* between the sub-steps of add_node.                                      *)

Threads == {1, 2}

ThreadDocuments == {"docOnly"}

\* add_pt, lines 67-68: the new dgm:pt with its modelId; its type reads
\* "node" until line 69 sets it.
add_pt_modelId(pts, model_id) == Append(pts, NewPt(model_id, "node"))

\* Position of the point element e in the list, 0 when it is not a child.
PtIdx(pts, e) == FirstIdx(pts, LAMBDA p : p.modelId = e)

\* add_pt, line 69, and lines 330-333 of _create_transition_nodes on the
\* point element e; nothing to see in the list when the element has been
\* removed from it.
pt_make_transition(pts, e, node_type, cxn_id) ==
  [k \in 1..Len(pts) |->
     IF pts[k].modelId = e
     THEN _ensure_text_structure([pts[k] EXCEPT !.type = node_type, !.cxnId = cxn_id])
     ELSE pts[k]]

\* etree.SubElement(cxnLst_elem, "dgm:cxn") and the modelId set, lines
\* 393-394 of create_connection.
cxn_SubElement(cxns, cxn_id) == Append(cxns, [NewCxn EXCEPT !.modelId = cxn_id])

\* Lines 396-399 of create_connection on the connection element e.
cxn_set_ends(cxns, e, src_id, dest_id, src_ord) ==
  [k \in 1..Len(cxns) |->
     IF cxns[k].modelId = e
     THEN [cxns[k] EXCEPT !.srcId = src_id, !.destId = dest_id,
                          !.srcOrd = src_ord, !.destOrd = 0]
     ELSE cxns[k]]

\* cxn_elem.set(attr, value) on the connection element e.
cxn_set(cxns, e, attr, value) ==
  [k \in 1..Len(cxns) |->
     IF cxns[k].modelId = e THEN [cxns[k] EXCEPT ![attr] = value] ELSE cxns[k]]

\* A call that has not started: add_node(parent=sel) with the default text.
\* n, i: the list a loop walks (findall's result is the first n elements of
\* the connection list, to which elements are only appended) and the
\* position in it; snap: the point elements list(ptLst.findall()) returned.
NewCall(sel) ==
  [pc |-> "resolve", parent |-> sel, parent_node |-> Absent, node_id |-> Absent,
   cxn_id |-> Absent, par_trans_id |-> Absent, sib_trans_id |-> Absent,
   n |-> 0, i |-> 0, existing_cxns |-> 0, par_trans |-> Absent,
   trans_ids_in_use |-> {}, snap |-> <<>>, max_id |-> 0, next_id |-> 0]

\* The positions at which a sub-step of add_node begins or the call is over:
\* parent resolution, point creation, edge creation, cloning, normalization.
Boundaries == {"resolve", "ids", "cx_findall", "clone", "pass", "done", "raised"}

\* The dataModel and the calls after thread t has run the step it stands at.
ThreadStep(w, t) ==
  LET c == w.calls[t]
      g == w.graph
      put(g1, c1) == [graph |-> g1, calls |-> [w.calls EXCEPT ![t] = c1]]
      pts(p1) == [g EXCEPT !.ptLst = p1]
      cxns(x1) == [g EXCEPT !.cxnLst = x1]
      at(pc) == [c EXCEPT !.pc = pc]
  IN  CASE c.pc = "resolve" ->
             \* add_node 525-526
             LET g1 == [g EXCEPT !.hasCxnLst = TRUE]
             IN  put(g1, [c EXCEPT !.parent_node = _resolve_parent_node(g1, c.parent),
                                   !.pc = "ids"])
        [] c.pc = "ids" ->
             \* add_node 528-529
             put([g EXCEPT !.hasPtLst = TRUE, !.uuid = g.uuid + 4],
                 [c EXCEPT !.node_id = g.uuid, !.cxn_id = g.uuid + 1,
                           !.par_trans_id = g.uuid + 2, !.sib_trans_id = g.uuid + 3,
                           !.pc = "pt_add"])
        [] c.pc = "pt_add" ->
             \* create_node_with_transitions 36: _create_data_node 313-322
             put(pts(_create_data_node(g.ptLst, c.node_id)), at("par_add"))
        [] c.pc = "par_add" ->
             \* _create_transition_nodes 328-329, add_pt 67-68
             put(pts(add_pt_modelId(g.ptLst, c.par_trans_id)), at("par_type"))
        [] c.pc = "par_type" ->
             \* add_pt 69-70, _create_transition_nodes 330-333
             put(pts(pt_make_transition(g.ptLst, c.par_trans_id, "parTrans", c.cxn_id)),
                 at("sib_add"))
        [] c.pc = "sib_add" ->
             \* _create_transition_nodes 328-329, add_pt 67-68
             put(pts(add_pt_modelId(g.ptLst, c.sib_trans_id)), at("sib_type"))
        [] c.pc = "sib_type" ->
             \* add_pt 69-70, _create_transition_nodes 330-333, add_node 535
             put(pts(pt_make_transition(g.ptLst, c.sib_trans_id, "sibTrans", c.cxn_id)),
                 at(IF c.parent_node # Absent THEN "cx_findall" ELSE "clone"))
        [] c.pc = "cx_findall" ->
             \* create_connection 387-388: the list the loop walks
             put(g, [c EXCEPT !.n = Len(g.cxnLst), !.i = 1, !.existing_cxns = 0,
                              !.pc = IF Len(g.cxnLst) = 0 THEN "cx_add" ELSE "cx_test"])
        [] c.pc = "cx_test" ->
             \* create_connection 389-390: one connection of the list tested
             put(g, [c EXCEPT
                       !.existing_cxns =
                          IF g.cxnLst[c.i].srcId = c.parent_node
                             /\ g.cxnLst[c.i].type = ""
                          THEN @ + 1 ELSE @,
                       !.i = @ + 1,
                       !.pc = IF c.i = c.n THEN "cx_add" ELSE "cx_test"])
        [] c.pc = "cx_add" ->
             \* create_connection 393-394
             put(cxns(cxn_SubElement(g.cxnLst, c.cxn_id)),
                 [c EXCEPT !.n = 0, !.i = 0, !.pc = "cx_srcId"])
        [] c.pc = "cx_srcId" ->
             \* create_connection 396-399
             put(cxns(cxn_set_ends(g.cxnLst, c.cxn_id, c.parent_node, c.node_id,
                                   c.existing_cxns)),
                 [c EXCEPT !.existing_cxns = 0, !.pc = "cx_parTransId"])
        [] c.pc = "cx_parTransId" ->
             \* create_connection 400
             put(cxns(cxn_set(g.cxnLst, c.cxn_id, "parTransId", c.par_trans_id)),
                 at("cx_sibTransId"))
        [] c.pc = "cx_sibTransId" ->
             \* create_connection 401
             put(cxns(cxn_set(g.cxnLst, c.cxn_id, "sibTransId", c.sib_trans_id)),
                 at("clone"))
        [] c.pc = "clone" ->
             \* add_node 541
             put(_auto_create_presentation_nodes(g, c.node_id), at("pass"))
        [] c.pc = "pass" ->
             \* synchronize_presof_ordering 676-686
             IF ~g.hasPtLst \/ ~g.hasCxnLst THEN put(g, at("done"))
             ELSE put(pts(_remove_unreferenced_pres_nodes(
                            _update_pres_style_cnt(g.ptLst), g.cxnLst)),
                      at("rt_findall"))
        [] c.pc = "rt_findall" ->
             \* _remove_transition_nodes 349-354: the connections to walk
             put(g, [c EXCEPT !.n = Len(g.cxnLst), !.i = 1, !.trans_ids_in_use = {},
                              !.pc = IF Len(g.cxnLst) = 0 THEN "rt_list" ELSE "rt_parTransId"])
        [] c.pc = "rt_parTransId" ->
             \* _remove_transition_nodes 355
             put(g, [c EXCEPT !.par_trans = g.cxnLst[c.i].parTransId, !.pc = "rt_sibTransId"])
        [] c.pc = "rt_sibTransId" ->
             \* _remove_transition_nodes 356-360
             put(g, [c EXCEPT
                       !.trans_ids_in_use =
                          (@ \cup {c.par_trans, g.cxnLst[c.i].sibTransId}) \ {Absent},
                       !.par_trans = Absent,
                       !.i = @ + 1,
                       !.pc = IF c.i = c.n THEN "rt_list" ELSE "rt_parTransId"])
        [] c.pc = "rt_list" ->
             \* _remove_transition_nodes 362: list(ptLst.findall())
             put(g, [c EXCEPT !.snap = [k \in 1..Len(g.ptLst) |-> g.ptLst[k].modelId],
                              !.n = 0, !.i = 1,
                              !.pc = IF Len(g.ptLst) = 0 THEN "order" ELSE "rt_type"])
        [] c.pc = "rt_type" ->
             \* _remove_transition_nodes 363-364: the type of one element of
             \* the list; an element that is no longer in ptLst is a transition
             \* point another call removed
             LET k == PtIdx(g.ptLst, c.snap[c.i])
                 is_trans == k = 0 \/ g.ptLst[k].type \in {"parTrans", "sibTrans"}
                 last == c.i = Len(c.snap)
             IN  IF is_trans THEN put(g, at("rt_remove"))
                 ELSE put(g, [c EXCEPT !.i = IF last THEN 0 ELSE @ + 1,
                                       !.snap = IF last THEN <<>> ELSE @,
                                       !.trans_ids_in_use = IF last THEN {} ELSE @,
                                       !.pc = IF last THEN "order" ELSE "rt_type"])
        [] c.pc = "rt_remove" ->
             \* _remove_transition_nodes 365-367: remove_pt raises ValueError
             \* when the element is no longer a child of ptLst
             LET e == c.snap[c.i]
                 k == PtIdx(g.ptLst, e)
                 last == c.i = Len(c.snap)
                 next == [c EXCEPT !.i = IF last THEN 0 ELSE @ + 1,
                                   !.snap = IF last THEN <<>> ELSE @,
                                   !.trans_ids_in_use = IF last THEN {} ELSE @,
                                   !.pc = IF last THEN "order" ELSE "rt_type"]
             IN  IF e \in c.trans_ids_in_use THEN put(g, next)
                 ELSE IF k = 0
                 THEN put(g, [c EXCEPT !.i = 0, !.snap = <<>>, !.trans_ids_in_use = {},
                                       !.pc = "raised"])
                 ELSE put(pts(SelectSeq(g.ptLst, LAMBDA p : p.modelId # e)), next)
        [] c.pc = "order" ->
             \* synchronize_presof_ordering 690-766
             LET doc_node_id == get_doc_node(g)
             IN  IF doc_node_id = Absent THEN put(g, at("done"))
                 ELSE put(cxns(RenumberPresParOf(g.ptLst, g.cxnLst, doc_node_id)),
                          at("ids_findall"))
        [] c.pc = "ids_findall" ->
             \* _ensure_connection_ids 774-775
             put(g, [c EXCEPT !.n = Len(g.cxnLst), !.i = 1, !.max_id = 0,
                              !.pc = IF Len(g.cxnLst) = 0 THEN "ids_findall2" ELSE "ids_max"])
        [] c.pc = "ids_max" ->
             \* _ensure_connection_ids 776-782
             put(g, [c EXCEPT
                       !.max_id = IF g.cxnLst[c.i].id # Absent /\ g.cxnLst[c.i].id > @
                                  THEN g.cxnLst[c.i].id ELSE @,
                       !.i = @ + 1,
                       !.pc = IF c.i = c.n THEN "ids_findall2" ELSE "ids_max"])
        [] c.pc = "ids_findall2" ->
             \* _ensure_connection_ids 785-786
             put(g, [c EXCEPT !.n = Len(g.cxnLst), !.i = 1, !.next_id = c.max_id + 1,
                              !.max_id = 0,
                              !.pc = IF Len(g.cxnLst) = 0 THEN "done" ELSE "ids_test"])
        [] c.pc = "ids_test" ->
             \* _ensure_connection_ids 787
             IF g.cxnLst[c.i].id = Absent THEN put(g, at("ids_set"))
             ELSE put(g, [c EXCEPT !.i = IF c.i = c.n THEN 0 ELSE @ + 1,
                                   !.n = IF c.i = c.n THEN 0 ELSE @,
                                   !.next_id = IF c.i = c.n THEN 0 ELSE @,
                                   !.pc = IF c.i = c.n THEN "done" ELSE "ids_test"])
        [] c.pc = "ids_set" ->
             \* _ensure_connection_ids 788-789
             put(cxns([g.cxnLst EXCEPT ![c.i].id = c.next_id]),
                 [c EXCEPT !.i = IF c.i = c.n THEN 0 ELSE @ + 1,
                           !.n = IF c.i = c.n THEN 0 ELSE @,
                           !.next_id = IF c.i = c.n THEN 0 ELSE @ + 1,
                           !.pc = IF c.i = c.n THEN "done" ELSE "ids_test"])
        [] OTHER -> w

World == [graph |-> Cur, calls |-> threads.calls]

InitThreads ==
  /\ InitGraph(ThreadDocuments)
  /\ \E sel \in {SelNone} \cup {SelNode(p) : p \in EditableIds},
        serialized \in BOOLEAN, grain \in {"substep", "statement"} :
       threads = [serialized |-> serialized, grain |-> grain, lock |-> 0,
                  calls |-> [t \in Threads |-> NewCall(sel)]]

\* The call of thread t is over: it returned or raised.
Over(c) == c.pc \in {"done", "raised"}

\* A ThreadAt whose callers give the lock up before create_connection
\* appends: the lock does not cover the whole call.
ThreadAt_lock_released(pcs) ==
  \E t \in Threads :
    /\ threads.calls[t].pc \in pcs
    /\ threads.serialized => threads.lock \in {0, t}
    /\ (~threads.serialized /\ threads.grain = "substep")
         => \A u \in Threads \ {t} : threads.calls[u].pc \in Boundaries
    /\ LET w == ThreadStep(World, t)
       IN  /\ Install(w.graph)
           /\ threads' = [threads EXCEPT
                            !.calls = w.calls,
                            !.lock = IF Over(w.calls[t]) \/ w.calls[t].pc = "cx_add"
                                     THEN 0 ELSE t]
    /\ UNCHANGED <<origin, adds, lastOp, before, rels, imageOps, lastImg>>

\* Thread t runs the step it stands at.  Under the callers' lock it does so
\* only while no other call is under way; with grain "substep" only while
\* the other call stands between two sub-steps.
ThreadAt(pcs) ==
  \E t \in Threads :
    /\ threads.calls[t].pc \in pcs
    /\ threads.serialized => threads.lock \in {0, t}
    /\ (~threads.serialized /\ threads.grain = "substep")
         => \A u \in Threads \ {t} : threads.calls[u].pc \in Boundaries
    /\ LET w == ThreadStep(World, t)
       IN  /\ Install(w.graph)
           /\ threads' = [threads EXCEPT
                            !.calls = w.calls,
                            !.lock = IF Over(w.calls[t]) THEN 0 ELSE t]
    /\ UNCHANGED <<origin, adds, lastOp, before, rels, imageOps, lastImg>>

\* add_node: _get_or_create_connection_list and _resolve_parent_node
ResolveParent == ThreadAt({"resolve"})

\* add_node: _get_or_create_pt_list and _generate_node_ids
GenerateNodeIds == ThreadAt({"ids"})

\* create_node_with_transitions: _create_data_node
CreateDataNode == ThreadAt({"pt_add"})

\* a step of _create_transition_nodes
CreateTransitionNodes == ThreadAt({"par_add", "par_type", "sib_add", "sib_type"})

\* a step of create_connection
CreateConnection ==
  ThreadAt({"cx_findall", "cx_test", "cx_add", "cx_srcId", "cx_parTransId",
            "cx_sibTransId"})

\* add_node: _auto_create_presentation_nodes
ClonePresentation == ThreadAt({"clone"})

\* the pass: _update_pres_style_cnt and _remove_unreferenced_pres_nodes
RefreshPresPoints == ThreadAt({"pass"})

\* the pass: a step of _remove_transition_nodes
RemoveTransitionNodes ==
  ThreadAt({"rt_findall", "rt_parTransId", "rt_sibTransId", "rt_list",
            "rt_type", "rt_remove"})

\* the pass: the doc point looked up and the presParOf connections renumbered
RenumberPresChildren == ThreadAt({"order"})

\* the pass: a step of _ensure_connection_ids
EnsureConnectionIds ==
  ThreadAt({"ids_findall", "ids_max", "ids_findall2", "ids_test", "ids_set"})

NextThreads ==
  \/ ResolveParent \/ GenerateNodeIds \/ CreateDataNode \/ CreateTransitionNodes
  \/ CreateConnection \/ ClonePresentation \/ RefreshPresPoints
  \/ RemoveTransitionNodes \/ RenumberPresChildren \/ EnsureConnectionIds

SpecThreads == InitThreads /\ [][NextThreads]_vars

-----------------------------------------------------------------------------
(* Vocabulary of the properties.                                           *)

\* The last call was a facade call of the given kind that raised nothing.
Returned(ops) == lastOp.op \in ops /\ lastOp.err = ""

\* Indices of the parent-child (untyped) connections.
ParentChildIdx(cxns) == {i \in 1..Len(cxns) : cxns[i].type = ""}

\* For every parent, the srcOrd values of its parent-child connections are
\* exactly 0..k-1, k the number of them.
SiblingsContiguous(cxns) ==
  \A p \in {cxns[i].srcId : i \in ParentChildIdx(cxns)} :
    LET mine == {i \in ParentChildIdx(cxns) : cxns[i].srcId = p}
    IN  /\ {cxns[i].srcOrd : i \in mine} = 0..(Cardinality(mine) - 1)
        /\ \A i, j \in mine : cxns[i].srcOrd = cxns[j].srcOrd => i = j

\* Every presOf connection has srcOrd 0 and destOrd 0.
PresOfFixed(cxns) ==
  \A i \in 1..Len(cxns) :
    cxns[i].type = "presOf" => cxns[i].srcOrd = 0 /\ cxns[i].destOrd = 0

\* Both endpoints of every connection are points of the list.
NoDanglingEdges(pts, cxns) ==
  \A i \in 1..Len(cxns) :
    cxns[i].srcId \in PtIds(pts) /\ cxns[i].destId \in PtIds(pts)

\* Number of DataNode points.
DataNodeCount(pts) == Cardinality({i \in 1..Len(pts) : pts[i].type = "node"})

\* Every pictRect / textRect pres point carries the DataNode count.
StyleCountsCurrent(pts) ==
  \A i \in 1..Len(pts) :
    (pts[i].type = "pres" /\ pts[i].presName \in {"pictRect", "textRect"})
      => pts[i].presStyleCnt = DataNodeCount(pts)

-----------------------------------------------------------------------------
(* C1..C10                                                                 *)

\* C1: starting from a graph that holds only a document root, after any
\* sequence of add_node / remove_node calls the srcOrd values of the
\* parent-child connections of every parent are exactly 0..k-1.
C1_SiblingContiguity ==
  (origin = "docOnly" /\ Returned({"add", "remove"})) => SiblingsContiguous(cxnLst)

\* C2: every presOf connection keeps srcOrd 0 and destOrd 0 over any
\* sequence of add_node / remove_node calls on the picture list, whose
\* presOf connections all start at 0/0.
C2_PresOfFixedOrder ==
  (origin = "pictureList" /\ Returned({"load", "add", "remove"}))
    => PresOfFixed(cxnLst)

\* C3: after a normalization pass, and so when add_node or remove_node
\* returns, every connection's srcId and destId name a point of the graph.
C3_NoDanglingAfterCall ==
  Returned({"add", "remove", "sync"}) => NoDanglingEdges(ptLst, cxnLst)

\* C4: a normalization pass run right after a normalization pass changes
\* nothing: points, connections and all their attributes stay as they are.
C4_NormalizationIdempotent ==
  [][(lastOp.op = "sync" /\ lastOp'.op = "sync")
       => (ptLst' = ptLst /\ cxnLst' = cxnLst)]_vars

\* A record of the round trip's result is the pre-call record, or what a
\* normalization pass alone makes of the pre-call record.
SameUpToNormalization(after, pre, norm) ==
  /\ Len(after) = Len(pre)
  /\ \A i \in 1..Len(after) :
       \/ after[i] = pre[i]
       \/ \E j \in 1..Len(norm) : norm[j].modelId = pre[i].modelId /\ after[i] = norm[j]

\* C5: add_node followed at once by remove_node of the node it returned
\* leaves the points and the connections as they were before the add_node
\* call, up to the attribute changes a normalization pass alone makes.
C5_RoundTrip ==
  [][(lastOp.op = "add" /\ lastOp'.op = "remove" /\ lastOp'.err = ""
      /\ lastOp'.node = lastOp.node)
       => LET norm == synchronize_presof_ordering(before)
          IN  /\ SameUpToNormalization(ptLst', before.ptLst, norm.ptLst)
              /\ SameUpToNormalization(cxnLst', before.cxnLst, norm.cxnLst)]_vars

\* C6: when add_node or remove_node returns, every pictRect / textRect pres
\* point has presStyleCnt equal to the number of DataNode points (here on
\* the picture list, which holds no assistant point).
C6_StyleCountCurrent ==
  (origin = "pictureList" /\ Returned({"add", "remove"}))
    => StyleCountsCurrent(ptLst)

\* The same on the list that holds an assistant point.
C6_StyleCountWithAssistant ==
  (origin = "legacyList" /\ Returned({"add"})) => StyleCountsCurrent(ptLst)

\* C7: every mutating facade call that returns ran the normalization pass
\* as its last sub-step.
C7_NormalizationEndsEveryCall ==
  Returned({"add", "remove"}) =>
    (lastOp.ran # <<>> /\ lastOp.ran[Len(lastOp.ran)] = "synchronize")

\* The run so far is: the doc-only document, add_node("Alpha"),
\* add_node("Beta") with no parent given, nothing else that changed the graph.
AfterAlphaBeta ==
  /\ origin = "docOnly" /\ adds = 2
  /\ lastOp.op = "add" /\ lastOp.kind = "none" /\ lastOp.text = "Beta"
  /\ Len(editable_nodes(before)) = 1
  /\ editable_nodes(before)[1].p_text = "Alpha"
  /\ Len(editable_nodes(Cur)) = 2

\* C8: doc-only graph, add_node("Alpha"), add_node("Beta"), remove_node(0):
\* Beta is the only editable node and the parent-child connection from the
\* document root to Beta has srcOrd 0.
C8_Scenario3 ==
  [][(AfterAlphaBeta /\ lastOp'.op = "remove" /\ lastOp'.kind = "index"
      /\ lastOp'.arg = 0 /\ lastOp'.err = "")
       => /\ Len(SelectSeq(ptLst', LAMBDA p : p.type = "node")) = 1
          /\ \A i \in 1..Len(ptLst') :
               ptLst'[i].type = "node" => ptLst'[i].modelId = lastOp.node
          /\ \E i \in 1..Len(cxnLst') :
               /\ cxnLst'[i].type = "" /\ cxnLst'[i].destId = lastOp.node
               /\ cxnLst'[i].srcId = get_doc_node(Cur) /\ cxnLst'[i].srcOrd = 0]_vars

\* The parent-child connections into node n, as (srcId, srcOrd) pairs.
ParentLinks(cxns, n) ==
  {<<cxns[i].srcId, cxns[i].srcOrd>> : i \in {j \in ParentChildIdx(cxns) : cxns[j].destId = n}}

\* C9: on the doc-only graph add_node("Alpha") yields exactly one editable
\* node, parented at the document root with srcOrd 0; a following
\* add_node("Beta") with no parent yields two editable nodes, Beta parented
\* at the document root with srcOrd 1.
C9_Scenario1And2 ==
  /\ (origin = "docOnly" /\ adds = 1 /\ lastOp.op = "add" /\ lastOp.kind = "none"
      /\ lastOp.text = "Alpha" /\ before.ptLst = DocOnly.ptLst /\ before.cxnLst = <<>>)
       => /\ Len(editable_nodes(Cur)) = 1
          /\ editable_nodes(Cur)[1].modelId = lastOp.node
          /\ ParentLinks(cxnLst, lastOp.node) = {<<get_doc_node(Cur), 0>>}
  /\ AfterAlphaBeta
       => /\ {editable_nodes(Cur)[i].p_text : i \in 1..2} = {"Alpha", "Beta"}
          /\ editable_nodes(Cur)[2].modelId = lastOp.node
          /\ ParentLinks(cxnLst, lastOp.node) = {<<get_doc_node(Cur), 1>>}

C9_Witness ==
  /\ AfterAlphaBeta
  /\ ParentLinks(cxnLst, editable_nodes(Cur)[1].modelId) = {<<get_doc_node(Cur), 0>>}

\* The parent the claim names for a selector, read off the graph g as it
\* was before the call.
ClaimedParents(g, kind, arg) ==
  LET docs == {i \in 1..Len(pt_lst(g)) : pt_lst(g)[i].type = "doc"}
      root == IF docs = {} THEN {}
              ELSE {pt_lst(g)[CHOOSE i \in docs : \A j \in docs : i <= j].modelId}
      eds  == {i \in 1..Len(pt_lst(g)) : pt_lst(g)[i].type = "node"}
      last == pt_lst(g)[CHOOSE i \in eds : \A j \in eds : j <= i].modelId
      up   == {g.cxnLst[i].srcId : i \in {j \in ParentChildIdx(g.cxnLst) :
                 g.cxnLst[j].destId = last /\ g.cxnLst[j].srcId \in PtIds(pt_lst(g))}}
  IN  CASE kind = "root" -> root
        [] kind = "node" -> {arg}
        [] OTHER -> IF eds # {} /\ up # {} THEN up ELSE root

\* C10: the source of the parent-child connection add_node creates is
\* decided from the graph as it was before the call: "root" gives the
\* document root, a node gives that node, None gives the parent of the last
\* editable node, or the document root when there is no such parent.
C10_ParentResolvedBeforeMutation ==
  lastOp.op = "add" =>
    {l[1] : l \in ParentLinks(cxnLst, lastOp.node)}
        = ClaimedParents(before, lastOp.kind, lastOp.arg)
    /\ Cardinality(ClaimedParents(before, lastOp.kind, lastOp.arg)) <= 1

\* None was given, and the new node hangs under a node that is not the root.
C10_Witness ==
  /\ lastOp.op = "add" /\ lastOp.kind = "none"
  /\ \E l \in ParentLinks(cxnLst, lastOp.node) : l[1] # get_doc_node(Cur)

-----------------------------------------------------------------------------
(* C11..C20                                                                *)

\* C11: after a remove_node call that returned, the graph holds no point
\* with the removed node's modelId, no connection whose srcId or destId is
\* that modelId, and no pres point whose presAssocID is that modelId.
C11_RemovedNodeLeavesNoTrace ==
  (lastOp.op = "remove" /\ lastOp.err = "") =>
    /\ lastOp.node \notin PtIds(ptLst)
    /\ \A i \in 1..Len(cxnLst) :
         cxnLst[i].srcId # lastOp.node /\ cxnLst[i].destId # lastOp.node
    /\ \A i \in 1..Len(ptLst) :
         ptLst[i].type = "pres" => ptLst[i].presAssocID # lastOp.node

\* The picture list's item, which had three pres points and two connections,
\* was removed while a second item and its clones stay in the graph.
C11_Witness ==
  /\ origin = "pictureList" /\ lastOp.op = "remove" /\ lastOp.err = ""
  /\ lastOp.node = 2
  /\ \E i \in 1..Len(ptLst) : ptLst[i].type = "pres" /\ ptLst[i].presName = "pictRect"

\* Every parTrans / sibTrans point is named as parTransId or sibTransId by
\* a connection of the list.
TransitionsReferenced(pts, cxns) ==
  \A i \in 1..Len(pts) :
    pts[i].type \in {"parTrans", "sibTrans"} =>
      \E j \in 1..Len(cxns) :
        pts[i].modelId \in {cxns[j].parTransId, cxns[j].sibTransId}

\* C12: when add_node or remove_node returns, every parTrans / sibTrans
\* point is referenced as parTransId or sibTransId by a connection still in
\* the graph.
C12_TransitionsReferenced ==
  Returned({"add", "remove"}) => TransitionsReferenced(ptLst, cxnLst)

\* Every DataNode point is the destination of at most one parent-child
\* connection.
SingleParent(pts, cxns) ==
  \A i \in 1..Len(pts) :
    pts[i].type = "node" =>
      Cardinality({j \in ParentChildIdx(cxns) : cxns[j].destId = pts[i].modelId}) <= 1

\* C13: on a graph in which every DataNode point has at most one inbound
\* parent-child connection, every DataNode point still has at most one
\* after any sequence of add_node and remove_node calls, the connections
\* mirrored from a template included.
C13_SingleParent ==
  Returned({"load", "add", "remove"}) => SingleParent(ptLst, cxnLst)

\* C14: on a graph that has a point list, remove_node given an integer index
\* that is not one of 0..n-1, n the number of editable nodes, raises
\* IndexError and leaves the points and the connections as they are.
C14_IndexOutOfRange ==
  [][(hasPtLst /\ lastOp'.op = "remove" /\ lastOp'.kind = "index"
      /\ lastOp'.arg \notin 0..(Len(editable_nodes(Cur)) - 1))
       => (lastOp'.err = "IndexError" /\ ptLst' = ptLst /\ cxnLst' = cxnLst)]_vars

\* C15: remove_node given a node whose point is not in the point list raises
\* ValueError with the graph unchanged; a remove_node call that raises has
\* run none of its steps and one that returns has run all of them.
C15_NotFoundBeforeAnyStep ==
  [][lastOp'.op = "remove" =>
       /\ (lastOp'.kind = "node" /\ lastOp'.arg \notin PtIds(pt_lst(Cur)))
            => lastOp'.err = "ValueError"
       /\ lastOp'.err # "" =>
            (ptLst' = ptLst /\ cxnLst' = cxnLst /\ hasPtLst' = hasPtLst
             /\ hasCxnLst' = hasCxnLst /\ lastOp'.ran = <<>>)
       /\ lastOp'.err = "" => lastOp'.ran = RemoveSteps]_vars

\* The graph with the missing lists created empty.
WithLists(s) == [s EXCEPT !.hasPtLst = TRUE, !.hasCxnLst = TRUE]

\* C16: on a graph without a point list or without a connection list,
\* add_node returns and remove_node ends as it does on the same graph with
\* the missing list created empty.
C16_MissingListsAreNoError ==
  [][((~hasPtLst \/ ~hasCxnLst) /\ lastOp'.op \in {"add", "remove"})
       => /\ lastOp'.op = "add" => lastOp'.err = ""
          /\ lastOp'.op = "remove" =>
               lastOp'.err = RemoveError(WithLists(Cur),
                                [kind |-> lastOp'.kind, arg |-> lastOp'.arg])]_vars

\* No pres point associated with node_id has an image indicator in its name.
NoImagePres(pts, node_id) ==
  \A i \in 1..Len(pts) :
    (pts[i].type = "pres" /\ pts[i].presAssocID = node_id)
      => IndicatorsIn(pts[i].presName) \cap image_indicators = {}

\* C17: embed_image_for_node on a node with no associated pres point whose
\* name holds an image indicator raises ValueError, and points, connections
\* and relationships stay as they are, every attribute included.
C17_EmbedWithoutPlaceholder ==
  [][(lastOp'.op = "embed" /\ NoImagePres(ptLst, lastOp'.arg))
       => (lastOp'.err = "ValueError" /\ ptLst' = ptLst /\ cxnLst' = cxnLst
           /\ rels' = rels /\ uuid' = uuid)]_vars

\* embed_image_for_node failed on an editable node that is in the graph and
\* has no pres point at all.
C17_Witness ==
  /\ lastOp.op = "embed" /\ lastOp.err = "ValueError"
  /\ \E i \in 1..Len(ptLst) : ptLst[i].modelId = lastOp.arg /\ ptLst[i].type = "node"
  /\ rels = <<>>

\* C18: after an embed_image_for_node call that returned, some pres point
\* associated with the node has a fill that is one blipFill embedding the
\* rId returned, whatever image indicator its name holds.
C18_FillReferencesRelationship ==
  (lastOp.op = "embed" /\ lastOp.err = "") =>
    \E i \in 1..Len(ptLst) :
      /\ ptLst[i].type = "pres" /\ ptLst[i].presAssocID = lastOp.arg
      /\ ptLst[i].spPr = "blipFill" /\ ptLst[i].embed = lastImg.rId

\* C19: every image call that embeds creates one relationship, whose rId
\* differs from the rId of every relationship made before, also for the
\* same image and the same node.
C19_FreshRelationshipPerEmbed ==
  [][(lastOp'.op \in {"embed", "image_path"} /\ lastImg'.rId # Absent)
       => /\ lastImg'.rId \notin {rels[i].rId : i \in 1..Len(rels)}
          /\ rels' = Append(rels, [rId |-> lastImg'.rId, target |-> lastOp'.text])]_vars

\* The same image was embedded twice for the only node of the picture list.
C19_Witness ==
  /\ origin = "pictureList" /\ adds = 0 /\ lastOp.op = "embed" /\ lastOp.arg = 2
  /\ Len(rels) = 2 /\ rels[1].target = rels[2].target
  /\ \E i \in 1..Len(ptLst) : ptLst[i].presAssocID = 2 /\ ptLst[i].embed = 2

\* C20: when image_path is set to a path on a node with an image placeholder
\* and the host package refuses the image, the call raises nothing, the
\* node's stored path is the new value, a warning is issued, and no point or
\* connection is added or removed.
C20_RefusedImageKeepsPath ==
  [][(lastOp'.op = "image_path" /\ lastOp'.text # "" /\ lastImg'.refused
      /\ ~NoImagePres(ptLst, lastOp'.arg) /\ lastOp'.arg \in PtIds(ptLst))
       => /\ lastOp'.err = "" /\ lastImg'.warned
          /\ \A i \in 1..Len(ptLst') :
               ptLst'[i].modelId = lastOp'.arg => ptLst'[i].imagePath = lastOp'.text
          /\ [i \in 1..Len(ptLst') |-> ptLst'[i].modelId]
               = [i \in 1..Len(ptLst) |-> ptLst[i].modelId]
          /\ cxnLst' = cxnLst /\ rels' = rels]_vars

\* A path was stored under a warning for an item whose placeholder kept the
\* fill it had.
C20_Witness ==
  /\ lastOp.op = "image_path" /\ lastImg.refused /\ lastImg.warned
  /\ \E i \in 1..Len(ptLst) : ptLst[i].modelId = lastOp.arg /\ ptLst[i].imagePath = "a.png"
  /\ \E i \in 1..Len(ptLst) : ptLst[i].presAssocID = lastOp.arg /\ ptLst[i].spPr = "rect"

-----------------------------------------------------------------------------
(* C21..C30                                                                *)

\* The editable nodes of g that have a pres point associated with them.
NodesWithPres(g) ==
  {n \in {editable_nodes(g)[i].modelId : i \in 1..Len(editable_nodes(g))} :
     PresNodesOf(pt_lst(g), n) # <<>>}

\* The presNames of the pres points associated with n.
PresNamesOf(pts, n) ==
  {PresNodesOf(pts, n)[i].presName : i \in 1..Len(PresNodesOf(pts, n))}

\* C21: when add_node returns node B on a graph in which an editable node A
\* had pres points, B's pres points carry the same set of presNames as A's,
\* and each of them that has a presStyleIdx has it equal to the number of
\* editable nodes there were before B.
C21_TemplateIsomorphism ==
  (lastOp.op = "add" /\ NodesWithPres(before) # {}) =>
    /\ \A a \in NodesWithPres(before) :
         PresNamesOf(ptLst, lastOp.node) = PresNamesOf(before.ptLst, a)
    /\ \A i \in 1..Len(ptLst) :
         (ptLst[i].type = "pres" /\ ptLst[i].presAssocID = lastOp.node
          /\ ptLst[i].presStyleIdx # NoOrd)
           => ptLst[i].presStyleIdx = Len(editable_nodes(before))

\* C22: after add_node(text) with a non-empty text, the text read from the
\* node returned is that text.
C22_TextRoundTrip ==
  (lastOp.op = "add" /\ lastOp.text # "") =>
    \A i \in 1..Len(ptLst) :
      ptLst[i].modelId = lastOp.node => text_value(ptLst[i]) = lastOp.text

\* The sub-steps of one call: parent resolution, point creation, edge
\* creation, cloning, normalization.
StepsPerCall == Cardinality({pc \in Boundaries : ~Over([pc |-> pc])})

\* Thread t runs up to the next position in pcs, or to the end of its call.
RECURSIVE RunUntil(_, _, _)
RunUntil(w, t, pcs) ==
  LET w1 == ThreadStep(w, t)
  IN  IF Over(w1.calls[t]) \/ w1.calls[t].pc \in pcs THEN w1
      ELSE RunUntil(w1, t, pcs)

\* Every order in which the two calls can take their sub-steps.
Schedules ==
  {sched \in [1..(2 * StepsPerCall) -> Threads] :
     Cardinality({i \in 1..(2 * StepsPerCall) : sched[i] = 1}) = StepsPerCall}

\* The calls run sub-step by sub-step in the order sched gives.
RECURSIVE RunSchedule(_, _)
RunSchedule(w, sched) ==
  IF sched = <<>> THEN w
  ELSE RunSchedule(RunUntil(w, sched[1], Boundaries), Tail(sched))

\* Thread 1 runs up to the position pc, thread 2 runs its whole call, then
\* thread 1 runs the rest of its call.
RunParked(w, pc) == RunUntil(RunUntil(RunUntil(w, 1, {pc}), 2, {}), 1, {})

BothDone(w) == \A t \in Threads : w.calls[t].pc = "done"

NotStarted(w) == \A t \in Threads : w.calls[t].pc = "resolve"

\* The parent-child edge a call has appended, as a set of at most one.
NewEdge(w, t) ==
  {c \in Range(w.graph.cxnLst) : c.modelId = w.calls[t].cxn_id /\ c.type = ""}

\* Both calls are over and their two edges, under one parent, carry the
\* same srcOrd.
SameSrcOrd(w) ==
  /\ BothDone(w)
  /\ \E c1 \in NewEdge(w, 1), c2 \in NewEdge(w, 2) :
       c1.srcId = c2.srcId /\ c1.srcOrd = c2.srcOrd

\* Both calls are over and their two edges exist with different srcOrd.
DistinctSrcOrd(w) ==
  /\ BothDone(w)
  /\ \E c1 \in NewEdge(w, 1), c2 \in NewEdge(w, 2) :
       c1.srcId = c2.srcId /\ c1.srcOrd # c2.srcOrd

\* C23 (as stated): two unlocked add_node calls on one parent, interleaved
\* between the sub-steps of add_node (parent resolution, point creation,
\* edge creation, cloning, normalization), can end with the same srcOrd on
\* two parent-child edges of that parent; calls that hold a lock for their
\* whole duration always end with distinct srcOrd.
C23_AsStated ==
  /\ (threads.calls # <<>> /\ NotStarted(World) /\ ~threads.serialized
      /\ threads.grain = "substep")
       => \E sched \in Schedules : SameSrcOrd(RunSchedule(World, sched))
  /\ (threads.calls # <<>> /\ threads.serialized /\ BothDone(World))
       => DistinctSrcOrd(World)

\* C23 (amended): the two new edges end with distinct srcOrd when the calls
\* hold a lock for their whole duration, and also when unlocked calls are
\* interleaved only between the sub-steps of add_node, since
\* create_connection counts and appends within one sub-step; unlocked calls
\* that are interleaved inside create_connection, one call running between
\* the other's counting loop and its append, end with the same srcOrd on
\* both edges.
C23_SrcOrdUnderInterleaving ==
  /\ (threads.calls # <<>> /\ BothDone(World)
      /\ (threads.serialized \/ threads.grain = "substep"))
       => DistinctSrcOrd(World)
  /\ (threads.calls # <<>> /\ NotStarted(World) /\ ~threads.serialized
      /\ threads.grain = "statement")
       => SameSrcOrd(RunParked(World, "cx_add"))

\* Two unlocked calls, interleaved inside create_connection, are over and
\* their edges carry the same srcOrd.
C23_Witness ==
  /\ threads.calls # <<>>
  /\ ~threads.serialized /\ threads.grain = "statement"
  /\ SameSrcOrd(World)

\* A connection without the srcOrd the clean-up may rewrite.
StripOrd(c) == [c EXCEPT !.srcOrd = NoOrd]

\* The lists pts and cxns are what a clean-up of mid, a graph with both
\* lists, may leave.
CleanedFrom(mid, pts, cxns) ==
  (mid.hasPtLst /\ mid.hasCxnLst) =>
    /\ pts = mid.ptLst
    /\ NoDanglingEdges(pts, cxns)
    /\ \A i \in 1..Len(mid.cxnLst) :
         (mid.cxnLst[i].srcId \in PtIds(mid.ptLst)
          /\ mid.cxnLst[i].destId \in PtIds(mid.ptLst))
           => \E j \in 1..Len(cxns) : StripOrd(cxns[j]) = StripOrd(mid.cxnLst[i])

\* C24: the clean-up remove_node ends with, run on a graph that has both
\* lists, leaves only connections whose srcId and destId are points of the
\* graph, and keeps every connection that had both endpoints in the graph
\* before it ran.
C24_CleanupKeepsLiveEdges ==
  [][(lastOp'.op = "remove" /\ lastOp'.err = "") =>
       \A mid \in {RemoveBeforeCleanup(Cur, lastOp'.node)} :
         CleanedFrom(mid, ptLst', cxnLst')]_vars

\* On the legacy list an added node was removed: the connection from the
\* item 3 to the missing point 15 went with the clean-up, the item and its
\* connection from the doc point stayed.
C24_Witness ==
  /\ origin = "legacyList" /\ lastOp.op = "remove" /\ lastOp.err = ""
  /\ 3 \in PtIds(ptLst)
  /\ \A i \in 1..Len(cxnLst) : cxnLst[i].destId # 15
  /\ \E i \in 1..Len(cxnLst) : cxnLst[i].srcId = 1 /\ cxnLst[i].destId = 3

\* The parent the last add_node call resolved, Absent for none.
ResolvedParent ==
  _resolve_parent_node([before EXCEPT !.hasCxnLst = TRUE],
                       [kind |-> lastOp.kind, arg |-> lastOp.arg])

\* Positions of the points of the given type that the last call added.
NewPtIdx(type) ==
  {i \in 1..Len(ptLst) :
     ptLst[i].type = type /\ ptLst[i].modelId \notin PtIds(before.ptLst)}

\* Positions of the parent-child connections that the last call added.
NewParentChildIdx ==
  {j \in ParentChildIdx(cxnLst) :
     cxnLst[j].modelId \notin {before.cxnLst[k].modelId : k \in 1..Len(before.cxnLst)}}

\* C25: when add_node resolves a parent, the graph it returns holds the new
\* DataNode point, one new parTrans and one new sibTrans point, and exactly
\* one new parent-child connection, from the parent to the new node, whose
\* parTransId and sibTransId are the modelIds of the two transition points
\* and whose modelId is the cxnId both of them carry.
C25_AddNodeStructure ==
  (lastOp.op = "add" /\ ResolvedParent # Absent) =>
    /\ {ptLst[i].modelId : i \in NewPtIdx("node")} = {lastOp.node}
    /\ Cardinality(NewPtIdx("node")) = 1
    /\ Cardinality(NewPtIdx("parTrans")) = 1
    /\ Cardinality(NewPtIdx("sibTrans")) = 1
    /\ Cardinality(NewParentChildIdx) = 1
    /\ \A j \in NewParentChildIdx : \A a \in NewPtIdx("parTrans") :
         \A b \in NewPtIdx("sibTrans") :
           /\ cxnLst[j].srcId = ResolvedParent
           /\ cxnLst[j].destId = lastOp.node
           /\ cxnLst[j].parTransId = ptLst[a].modelId
           /\ cxnLst[j].sibTransId = ptLst[b].modelId
           /\ cxnLst[j].modelId = ptLst[a].cxnId
           /\ cxnLst[j].modelId = ptLst[b].cxnId

\* add_node was given an editable node of the graph as the parent and put a
\* new node with its two transition points under it.
C25_Witness ==
  /\ lastOp.op = "add" /\ lastOp.kind = "node"
  /\ lastOp.arg \in PtIds(before.ptLst)
  /\ ParentLinks(cxnLst, lastOp.node) # {}
  /\ NewPtIdx("parTrans") # {} /\ NewPtIdx("sibTrans") # {}

\* C26: the parent-child connection create_connection makes for parent p
\* has srcOrd equal to the number of untyped connections sourced at p just
\* before the call, and destOrd 0; connections of other types sourced at p
\* are not counted.
C26_NewEdgeOrder ==
  (lastOp.op = "add" /\ ResolvedParent # Absent) =>
    \A j \in NewParentChildIdx :
      /\ cxnLst[j].srcOrd =
           Cardinality({k \in ParentChildIdx(before.cxnLst) :
                          before.cxnLst[k].srcId = ResolvedParent})
      /\ cxnLst[j].destOrd = 0

\* The parent had a typed connection and an untyped one sourced at it, and
\* the new connection took the srcOrd after the untyped one.
C26_Witness ==
  /\ lastOp.op = "add" /\ ResolvedParent # Absent
  /\ \E k \in 1..Len(before.cxnLst) :
       before.cxnLst[k].srcId = ResolvedParent /\ before.cxnLst[k].type = "presOf"
  /\ \E k \in ParentChildIdx(before.cxnLst) : before.cxnLst[k].srcId = ResolvedParent
  /\ \E j \in NewParentChildIdx : cxnLst[j].srcOrd = 1

\* Positions of the presOf connections of post that pre does not hold.
NewPresOfIdx(pre, post) ==
  {j \in 1..Len(post.cxnLst) :
     post.cxnLst[j].type = "presOf"
     /\ post.cxnLst[j].modelId \notin {pre.cxnLst[k].modelId : k \in 1..Len(pre.cxnLst)}}

\* modelIds of the pres points named textRect that post holds for node n and
\* pre does not.
TextRectClones(pre, post, n) ==
  {post.ptLst[i].modelId : i \in {k \in 1..Len(post.ptLst) :
     post.ptLst[k].type = "pres" /\ post.ptLst[k].presName = "textRect"
     /\ post.ptLst[k].presAssocID = n
     /\ post.ptLst[k].modelId \notin PtIds(pre.ptLst)}}

\* The presId values the presOf connections of g carry.
PresIds(g) ==
  {g.cxnLst[k].presId : k \in {j \in 1..Len(g.cxnLst) : g.cxnLst[j].type = "presOf"}}
    \ {Absent}

\* The presOf connections made are those the claim names: made and text are
\* NewPresOfIdx and TextRectClones of the step from pre to post for node n.
PresOfAsClaimed(pre, post, n, made, text) ==
  IF text # {} /\ PresIds(pre) # {}
  THEN /\ Cardinality(made) = 1
       /\ \A j \in made :
            /\ post.cxnLst[j].srcId = n
            /\ post.cxnLst[j].destId \in text
            /\ post.cxnLst[j].srcOrd = 0 /\ post.cxnLst[j].destOrd = 0
            /\ post.cxnLst[j].presId \in PresIds(pre)
  ELSE made = {}

\* The cloning step run on pre for the new node n.
PresOfCreatedBy(pre, n) ==
  \A post \in {_auto_create_presentation_nodes(pre, n)} :
    PresOfAsClaimed(pre, post, n, NewPresOfIdx(pre, post), TextRectClones(pre, post, n))

\* C27: the cloning step of add_node creates exactly one presOf connection,
\* from the new data node to the textRect clone, with srcOrd 0, destOrd 0
\* and the presId of an existing presOf connection, whenever a textRect
\* clone was made and some presOf connection of the graph carries a presId;
\* otherwise it creates no presOf connection.
C27_PresOfCreated ==
  [][lastOp'.op = "add" =>
       \A pre \in {AddBeforeClone(Cur, [kind |-> lastOp'.kind, arg |-> lastOp'.arg])} :
         PresOfCreatedBy(pre, lastOp'.node)]_vars

\* The template of a cloning step on g for the new node n: the first
\* editable node other than n that has a pres point, as a set of at most one.
TemplateOf(g, n) ==
  LET has == {i \in 1..Len(g.ptLst) :
                g.ptLst[i].type = "node" /\ g.ptLst[i].modelId # n
                /\ PresNodesOf(g.ptLst, g.ptLst[i].modelId) # <<>>}
  IN  IF has = {} THEN {}
      ELSE {g.ptLst[CHOOSE i \in has : \A j \in has : i <= j].modelId}

\* modelIds of the pres points of g associated with a node of the set.
PresIdsOf(g, nodes) ==
  {g.ptLst[i].modelId : i \in {k \in 1..Len(g.ptLst) :
     g.ptLst[k].type = "pres" /\ g.ptLst[k].presAssocID \in nodes}}

\* The clone in post, made for node n, of the pres point x of pre, tids
\* being the template pres points: the new pres point of n that carries
\* x's presName; x itself if x is no template pres point.
CloneOf(pre, post, n, tids, x) ==
  IF x \notin tids THEN x
  ELSE LET name == pre.ptLst[CHOOSE i \in 1..Len(pre.ptLst) :
                                pre.ptLst[i].modelId = x].presName
           hits == {i \in 1..Len(post.ptLst) :
                      post.ptLst[i].type = "pres" /\ post.ptLst[i].presAssocID = n
                      /\ post.ptLst[i].presName = name
                      /\ post.ptLst[i].modelId \notin PtIds(pre.ptLst)}
       IN  IF hits = {} THEN Absent ELSE post.ptLst[CHOOSE i \in hits : TRUE].modelId

\* A connection without its modelId.
StripId(c) == [c EXCEPT !.modelId = Absent]

\* The connections post holds past those of pre are the copies the claim
\* names: src are the positions in pre of the connections to copy, copy
\* maps each to what its copy is to be, made are the positions in post of
\* the new connections that are no presOf.
CopiesAsClaimed(pre, post, n, src, copy, made) ==
  /\ SubSeq(post.cxnLst, 1, Len(pre.cxnLst)) = pre.cxnLst
  /\ Cardinality(made) = Cardinality(src)
  /\ \A k \in src :
       Cardinality({j \in made : StripId(post.cxnLst[j]) = copy[k]})
         = Cardinality({k2 \in src : copy[k2] = copy[k]})
  /\ \A j \in (Len(pre.cxnLst) + 1)..Len(post.cxnLst) :
       /\ post.cxnLst[j].modelId
            \notin {pre.cxnLst[k].modelId : k \in 1..Len(pre.cxnLst)}
                 \cup PtIds(post.ptLst)
       /\ \A j2 \in (Len(pre.cxnLst) + 1)..Len(post.cxnLst) :
            post.cxnLst[j].modelId = post.cxnLst[j2].modelId => j = j2
       /\ post.cxnLst[j].type = "presOf" => post.cxnLst[j].srcId = n

MirroredAsClaimed(pre, post, n, tids) ==
  \A src \in {{k \in 1..Len(pre.cxnLst) :
                  pre.cxnLst[k].type # "presOf"
                  /\ (pre.cxnLst[k].srcId \in tids \/ pre.cxnLst[k].destId \in tids)}} :
    \A copy \in {[k \in src |->
                    [pre.cxnLst[k] EXCEPT
                       !.modelId = Absent,
                       !.srcId = CloneOf(pre, post, n, tids, pre.cxnLst[k].srcId),
                       !.destId = CloneOf(pre, post, n, tids, pre.cxnLst[k].destId)]]} :
      CopiesAsClaimed(pre, post, n, src, copy,
        {j \in (Len(pre.cxnLst) + 1)..Len(post.cxnLst) : post.cxnLst[j].type # "presOf"})

\* The cloning step run on pre for the new node n.
MirroredBy(pre, n) ==
  \A post \in {_auto_create_presentation_nodes(pre, n)} :
    \A tids \in {PresIdsOf(pre, TemplateOf(pre, n))} :
      MirroredAsClaimed(pre, post, n, tids)

\* C28: for every non-presOf connection c that touches a template pres
\* point, the cloning step adds exactly one connection with a fresh modelId
\* and c's type, orders and other attributes, each endpoint that was a
\* template pres point replaced by its clone and every other endpoint as it
\* was; the copies are not copied again and no presOf connection is copied.
C28_MirroredConnections ==
  [][lastOp'.op = "add" =>
       \A pre \in {AddBeforeClone(Cur, [kind |-> lastOp'.kind, arg |-> lastOp'.arg])} :
         MirroredBy(pre, lastOp'.node)]_vars

\* add_node on a list whose item has three pres points under Name0 made
\* three presParOf connections: one from the Name0 pres point, which is no
\* template point, to the compNode clone, and two from that clone.
C28_Witness ==
  /\ lastOp.op = "add"
  /\ LET fresh == {j \in 1..Len(cxnLst) :
                     cxnLst[j].type = "presParOf" /\ cxnLst[j].modelId > lastOp.node}
         mine == PresIdsOf(Cur, {lastOp.node})
     IN  /\ Cardinality(fresh) = 3
         /\ \E j \in fresh : cxnLst[j].srcId \notin mine /\ cxnLst[j].destId \in mine
         /\ \E j \in fresh : cxnLst[j].srcId \in mine /\ cxnLst[j].destId \in mine
                               /\ cxnLst[j].srcOrd = 1

\* Positions in post of the pres points made for node n.
ClonesIn(pre, post, n) ==
  {i \in 1..Len(post.ptLst) :
     post.ptLst[i].type = "pres" /\ post.ptLst[i].presAssocID = n
     /\ post.ptLst[i].modelId \notin PtIds(pre.ptLst)}

\* Every clone carries the presStyleCnt the claim names for its template
\* point; others is the number of DataNode points other than the new one.
StyleCntAsClaimed(post, templates, clones, others) ==
  \A t \in Range(templates) : \A i \in clones :
    post.ptLst[i].presName = t.presName =>
      /\ t.presStyleCnt = NoOrd => post.ptLst[i].presStyleCnt = NoOrd
      /\ (t.presStyleCnt # NoOrd /\ t.presName = "compNode")
           => post.ptLst[i].presStyleCnt = t.presStyleCnt
      /\ (t.presStyleCnt # NoOrd /\ t.presName # "compNode")
           => post.ptLst[i].presStyleCnt = others + 1
      /\ t.presStyleIdx = NoOrd => post.ptLst[i].presStyleIdx = NoOrd

\* The cloning step run on pre for the new node n.
StyleCntBy(pre, n) ==
  \A tmpl \in TemplateOf(pre, n) :
    \A post \in {_auto_create_presentation_nodes(pre, n)} :
      StyleCntAsClaimed(post, PresNodesOf(pre.ptLst, tmpl), ClonesIn(pre, post, n),
                        DataNodeCount(SelectSeq(pre.ptLst, LAMBDA p : p.modelId # n)))

\* C29: a pres point cloned from a template point named compNode carries
\* the template's presStyleCnt; a clone of any other template point that
\* has a presStyleCnt carries the number of DataNode points other than the
\* new one, plus one; a clone of a template point without presStyleCnt has
\* none, and one of a template point without presStyleIdx has no
\* presStyleIdx.
C29_CloneStyleCount ==
  [][lastOp'.op = "add" =>
       \A pre \in {AddBeforeClone(Cur, [kind |-> lastOp'.kind, arg |-> lastOp'.arg])} :
         StyleCntBy(pre, lastOp'.node)]_vars

\* modelIds of the pres points of a list.
PresPtIds(pts) == {pts[i].modelId : i \in {k \in 1..Len(pts) : pts[k].type = "pres"}}

\* modelIds of the connections of a list.
CxnIds(cxns) == {cxns[i].modelId : i \in 1..Len(cxns)}

\* The last add_node call made no pres point and no connection other than
\* one parent-child connection into the new node.
NothingClonedByLastAdd ==
  /\ PresPtIds(ptLst) \subseteq PresPtIds(before.ptLst)
  /\ \A j \in 1..Len(cxnLst) :
       cxnLst[j].modelId \notin CxnIds(before.cxnLst)
         => (cxnLst[j].type = "" /\ cxnLst[j].destId = lastOp.node)
  /\ Cardinality({j \in 1..Len(cxnLst) :
                    cxnLst[j].modelId \notin CxnIds(before.cxnLst)}) <= 1

\* C30 (as stated): when no editable node has a pres point, add_node makes
\* no pres point and no connection other than the new parent-child
\* connection, and every pres point and every connection that is no
\* parent-child connection is still in the graph.
C30_AsStated ==
  (lastOp.op = "add" /\ NodesWithPres(before) = {}) =>
    /\ NothingClonedByLastAdd
    /\ PresPtIds(before.ptLst) \subseteq PresPtIds(ptLst)
    /\ \A k \in 1..Len(before.cxnLst) :
         before.cxnLst[k].type # "" => before.cxnLst[k].modelId \in CxnIds(cxnLst)

\* modelIds that are srcId or destId of a connection of the list.
Referenced(cxns) ==
  {cxns[i].srcId : i \in 1..Len(cxns)} \cup {cxns[i].destId : i \in 1..Len(cxns)}

\* modelIds of the pres points named Name0.
RootPresIds(pts) ==
  {pts[i].modelId : i \in {k \in 1..Len(pts) :
     pts[k].type = "pres" /\ pts[k].presName = "Name0"}}

\* C30 (amended): when no editable node has a pres point, add_node makes no
\* pres point and no connection other than the new parent-child connection;
\* every pres point that a connection referenced is still in the graph, and
\* so is every connection that is neither a parent-child connection nor a
\* presParOf connection sourced at the Name0 pres point.
C30_NoTemplateNoClone ==
  (lastOp.op = "add" /\ NodesWithPres(before) = {}) =>
    /\ NothingClonedByLastAdd
    /\ (PresPtIds(before.ptLst) \cap Referenced(before.cxnLst)) \subseteq PresPtIds(ptLst)
    /\ \A k \in 1..Len(before.cxnLst) :
         (before.cxnLst[k].type # ""
          /\ ~(before.cxnLst[k].type = "presParOf"
               /\ before.cxnLst[k].srcId \in RootPresIds(before.ptLst)))
           => before.cxnLst[k].modelId \in CxnIds(cxnLst)

\* add_node ran on a graph that held pres points, none of them of an
\* editable node, and a presParOf connection from the Name0 pres point;
\* the Name0 pres point and its presOf connection are still there, the
\* presParOf connection is not.
C30_Witness ==
  /\ lastOp.op = "add" /\ NodesWithPres(before) = {}
  /\ lastOp.node \in PtIds(ptLst)
  /\ RootPresIds(before.ptLst) # {} /\ RootPresIds(ptLst) = RootPresIds(before.ptLst)
  /\ \E k \in 1..Len(before.cxnLst) :
       /\ before.cxnLst[k].type = "presParOf"
       /\ before.cxnLst[k].modelId \notin CxnIds(cxnLst)
  /\ \E k \in 1..Len(before.cxnLst) :
       /\ before.cxnLst[k].type = "presOf"
       /\ before.cxnLst[k].modelId \in CxnIds(cxnLst)

-----------------------------------------------------------------------------
(* C31..C39                                                                *)

\* Positions of the presParOf connections sourced at the first pres point
\* named Name0.
RootPresChildIdx(pts, cxns) ==
  LET n0 == {i \in 1..Len(pts) : pts[i].type = "pres" /\ pts[i].presName = "Name0"}
  IN  IF n0 = {} THEN {}
      ELSE {j \in 1..Len(cxns) :
              cxns[j].type = "presParOf"
              /\ cxns[j].srcId = pts[CHOOSE i \in n0 : \A k \in n0 : i <= k].modelId}

\* The srcOrd values of the parent-child connections from the doc point to
\* the data node the pres point x is associated with, x a compNode.
RootOrdsOf(pts, cxns, x) ==
  {cxns[j].srcOrd : j \in {k \in ParentChildIdx(cxns) :
     /\ cxns[k].srcId \in {pts[i].modelId : i \in {m \in 1..Len(pts) : pts[m].type = "doc"}}
     /\ \E i \in 1..Len(pts) :
          /\ pts[i].modelId = x /\ pts[i].type = "pres"
          /\ pts[i].presName = "compNode"
          /\ pts[i].presAssocID = cxns[k].destId
          /\ cxns[k].destId \in PtIds(pts)}}

\* The presParOf connections under Name0 are as the claim has them after a
\* normalization pass.
RootPresChildrenOrdered(pts, cxns, edges) ==
  /\ \A j \in edges : RootOrdsOf(pts, cxns, cxns[j].destId) # {}
  /\ {cxns[j].srcOrd : j \in edges} = 0..(Cardinality(edges) - 1)
  /\ \A j, k \in edges : cxns[j].srcOrd = cxns[k].srcOrd => j = k
  /\ \A j, k \in edges :
       (\A a \in RootOrdsOf(pts, cxns, cxns[j].destId) :
          \A b \in RootOrdsOf(pts, cxns, cxns[k].destId) : a < b)
         => cxns[j].srcOrd < cxns[k].srcOrd

\* C31: after a normalization pass on a graph with a pres point named Name0,
\* every presParOf connection sourced at Name0 targets a compNode pres point
\* of a data node that is a parent-child child of the doc point, and the
\* srcOrd values of these connections are exactly 0..n-1, increasing with
\* the parent-child srcOrd of their data nodes.
C31_RootPresChildrenRenumbered ==
  (lastOp.op \in {"add", "sync"} /\ lastOp.err = "" /\ hasPtLst /\ hasCxnLst) =>
    RootPresChildrenOrdered(ptLst, cxnLst, RootPresChildIdx(ptLst, cxnLst))

\* C32: after a normalization pass every pres point of the graph is srcId
\* or destId of a connection of the graph, the connections being those left
\* once the pass has removed the stale presParOf connections.
C32_PresPointsReferenced ==
  (lastOp.op \in {"add", "sync"} /\ lastOp.err = "" /\ hasPtLst /\ hasCxnLst) =>
    PresPtIds(ptLst) \subseteq Referenced(cxnLst)

\* The id attributes that are present are pairwise distinct.
DistinctIds(cxns) ==
  \A i, j \in 1..Len(cxns) :
    (i # j /\ cxns[i].id # Absent) => cxns[i].id # cxns[j].id

\* The parents add_node can be given on g: None, "root", an editable node.
AddSelectors(g) ==
  {SelNone, SelRoot}
    \cup {SelNode(editable_nodes(g)[i].modelId) : i \in 1..Len(editable_nodes(g))}

\* The graphs that at most n add_node calls make of the graphs of S.
RECURSIVE AddOnly(_, _)
AddOnly(S, n) ==
  IF n = 0 THEN S
  ELSE S \cup AddOnly(UNION {{add_node(g, "", sel) : sel \in AddSelectors(g)} : g \in S},
                      n - 1)

\* The graphs that add_node calls alone make of the loaded documents whose
\* connections have pairwise distinct id attributes, or none.
AddOnlyGraphs ==
  AddOnly({g \in {load(name) : name \in Documents} : DistinctIds(g.cxnLst)}, MaxAdds)

\* The graph without the texts of its points.
Blank(g) ==
  [g EXCEPT !.ptLst = [i \in 1..Len(g.ptLst) |-> [g.ptLst[i] EXCEPT !.p_text = ""]]]

\* C33: after add_node calls alone, on a graph whose connections had
\* pairwise distinct id attributes or none, the id attributes of all
\* connections are pairwise distinct, those of the connections copied from
\* a template included.
C33_DistinctConnectionIds ==
  (lastOp.op = "add" /\ Blank(Cur) \in AddOnlyGraphs) => DistinctIds(cxnLst)

\* The graph a normalization pass started from, for a step that ran one:
\* the graph itself for a call of synchronize_presof_ordering, the graph
\* add_node had built for the pass that ends add_node.
PassInput ==
  IF lastOp'.op = "add"
  THEN AddStructure(Cur, [kind |-> lastOp'.kind, arg |-> lastOp'.arg])
  ELSE Cur

\* The largest id of cxns, 0 when no connection has one.
MaxId(cxns) ==
  LET present == {cxns[i].id : i \in 1..Len(cxns)} \ {Absent}
  IN  IF present = {} THEN 0 ELSE CHOOSE m \in present : \A x \in present : x <= m

\* The connections of post that had no id in pre, in the order of post.
Backfilled(pre, post) ==
  SelectSeq(post, LAMBDA c :
    \E j \in 1..Len(pre) : pre[j].modelId = c.modelId /\ pre[j].id = Absent)

IdsBackfilled(pre, post) ==
  /\ \A i \in 1..Len(post) : post[i].id # Absent
  /\ \A k \in 1..Len(Backfilled(pre, post)) :
       Backfilled(pre, post)[k].id = MaxId(pre) + k
  /\ \A i \in 1..Len(post), j \in 1..Len(pre) :
       (pre[j].modelId = post[i].modelId /\ pre[j].id # Absent)
         => post[i].id = pre[j].id

\* C34: after a normalization pass every connection has an id; the ids the
\* pass assigned are max+1, max+2, ... in list order, max being the largest
\* id before the pass (0 when there is none); ids present before the pass
\* are unchanged.
C34_IdsBackfilled ==
  [][lastOp'.op \in {"add", "sync"} =>
       \A pre \in {PassInput} : IdsBackfilled(pre.cxnLst, cxnLst')]_vars

\* modelIds of the doc, node and asst points, in list order.
LogicalPoints(pts) ==
  LET sel == SelectSeq(pts, LAMBDA q : q.type \in {"doc", "node", "asst"})
  IN  [i \in 1..Len(sel) |-> sel[i].modelId]

\* The parent-child and presOf connections, in list order, id apart.
LogicalCxns(cxns) ==
  LET sel == SelectSeq(cxns, LAMBDA c : c.type \in {"", "presOf"})
  IN  [i \in 1..Len(sel) |-> [sel[i] EXCEPT !.id = Absent]]

PassFrame(pre, post) ==
  /\ LogicalPoints(pre.ptLst) = LogicalPoints(post.ptLst)
  /\ LogicalCxns(pre.cxnLst) = LogicalCxns(post.cxnLst)
  /\ \A i \in 1..Len(pre.ptLst), j \in 1..Len(post.ptLst) :
       (/\ pre.ptLst[i].type = "pres"
        /\ pre.ptLst[i].presName \notin {"pictRect", "textRect"}
        /\ post.ptLst[j].modelId = pre.ptLst[i].modelId)
         => post.ptLst[j].presStyleCnt = pre.ptLst[i].presStyleCnt

\* C35: a normalization pass adds and removes no doc, node or asst point,
\* adds, removes and changes no parent-child or presOf connection (srcOrd
\* and destOrd included), and leaves presStyleCnt alone on every pres point
\* that is not named pictRect or textRect.
C35_PassFrame ==
  [][lastOp'.op \in {"add", "sync"} =>
       \A pre \in {PassInput} :
         PassFrame(pre, State(ptLst', cxnLst', hasPtLst', hasCxnLst', uuid'))]_vars

\* A pass has refreshed the count of a pictRect point in a list with a
\* compNode point, parent-child and presOf connections.
C35_Witness ==
  /\ lastOp.op = "add"
  /\ \E i \in 1..Len(ptLst), j \in 1..Len(before.ptLst) :
       /\ ptLst[i].presName = "pictRect"
       /\ before.ptLst[j].modelId = ptLst[i].modelId
       /\ before.ptLst[j].presStyleCnt # ptLst[i].presStyleCnt
  /\ \E i \in 1..Len(ptLst) : ptLst[i].presName = "compNode" /\ ptLst[i].presStyleCnt = 0
  /\ \E i, j \in 1..Len(cxnLst) : cxnLst[i].type = "" /\ cxnLst[j].type = "presOf"

\* The attributes of a connection a clean-up is to keep.
Kept(c) ==
  [modelId |-> c.modelId, srcId |-> c.srcId, destId |-> c.destId,
   type |-> c.type, srcOrd |-> c.srcOrd, destOrd |-> c.destOrd,
   parTransId |-> c.parTransId, sibTransId |-> c.sibTransId]

KeptSeq(cxns) == [i \in 1..Len(cxns) |-> Kept(cxns[i])]

\* post is what only deleting connections of mid leaves, and the same as
\* what the list-level clean-up leaves.
OnlyDeletes(mid, post) ==
  /\ post.ptLst = mid.ptLst
  /\ \A j \in 1..Len(post.cxnLst) :
       \E i \in 1..Len(mid.cxnLst) : Kept(post.cxnLst[j]) = Kept(mid.cxnLst[i])
  /\ KeptSeq(post.cxnLst) =
       KeptSeq(cxnLst_cleanup_orphaned_connections(mid.cxnLst, PtIds(mid.ptLst)))

\* C36: the clean-up remove_node ends with only deletes connections: each
\* connection it leaves has the srcId, destId, type, srcOrd, destOrd and
\* transition ids it had, no point is added, removed or changed, and
\* CT_CxnList.cleanup_orphaned_connections leaves the same connections with
\* the same attributes.
C36_CleanupOnlyDeletes ==
  [][(lastOp'.op = "remove" /\ lastOp'.err = "") =>
       \A mid \in {RemoveBeforeCleanup(Cur, lastOp'.node)} :
         (mid.hasPtLst /\ mid.hasCxnLst) =>
           OnlyDeletes(mid, State(ptLst', cxnLst', hasPtLst', hasCxnLst', uuid'))]_vars

\* Positions of the parent-child connections into the point d.
ParentEdges(cxns, d) == {i \in 1..Len(cxns) : cxns[i].type = "" /\ cxns[i].destId = d}

\* The points reached from those of S along at most n parent-child
\* connections.
RECURSIVE Descendants(_, _, _)
Descendants(cxns, S, n) ==
  IF n = 0 THEN S
  ELSE Descendants(cxns,
         S \cup {cxns[i].destId : i \in {j \in 1..Len(cxns) :
                                           cxns[j].type = "" /\ cxns[j].srcId \in S}},
         n - 1)

\* C37: on a graph that was loaded with a document root only, after any
\* add_node and remove_node calls every node point has exactly one
\* parent-child connection into it and is reached from the doc point along
\* parent-child connections.
C37_EveryNodeHasOneParent ==
  origin = "docOnly" =>
    \A k \in 1..Len(editable_nodes(Cur)) :
      /\ Cardinality(ParentEdges(cxnLst, editable_nodes(Cur)[k].modelId)) = 1
      /\ editable_nodes(Cur)[k].modelId
           \in Descendants(cxnLst, {get_doc_node(Cur)}, Len(cxnLst))

\* post is what the claim says sync_smartart_text leaves of pre.
SyncedAsClaimed(pre, text_list, post) ==
  LET en0 == editable_nodes(pre)
      en1 == editable_nodes(post)
  IN  /\ Len(en1) = (IF Len(en0) > Len(text_list) THEN Len(en0) ELSE Len(text_list))
      /\ \A i \in 1..Len(text_list) :
           i <= Len(en1) /\ en1[i].p_text = text_list[i]
      /\ \A i \in 1..Len(en0) :
           i <= Len(en1) /\ en1[i].modelId = en0[i].modelId
      /\ \A i \in (Len(text_list) + 1)..Len(en0) :
           i <= Len(en1) /\ en1[i] = en0[i]

\* C38: after sync_smartart_text(smartart, texts) there are max(number
\* before, len(texts)) editable nodes, the i-th editable node in list order
\* has had its text set to texts[i] for each i < len(texts), and the
\* editable nodes from position len(texts) on are as they were.
C38_TextsSynchronized ==
  [][lastOp'.op = "sync_text" =>
       \A post \in {State(ptLst', cxnLst', hasPtLst', hasCxnLst', uuid')} :
         SyncedAsClaimed(Cur, lastOp'.text_list, post)]_vars

\* The text set on the point with this modelId: the paragraph the text
\* setter and add_node write.
TextSet(s, node_id) ==
  LET i == FirstIdx(pt_lst(s), LAMBDA q : q.modelId = node_id)
  IN  IF i = 0 THEN "" ELSE pt_lst(s)[i].p_text

\* The node has neither a non-blank text nor an image stored on an image
\* placeholder.
IsEmptyNode(s, node_id) ==
  /\ strip(TextSet(s, node_id)) = ""
  /\ ~(has_image_placeholder(s, node_id) /\ image_path(s, node_id) # "")

\* C39: remove_empty_smartart_nodes removes exactly the editable nodes with
\* neither a non-blank text nor an image stored on an image placeholder; an
\* editable node whose text was set to a non-blank value is in the graph
\* after the call.
C39_RemovesExactlyEmptyNodes ==
  [][lastOp'.op = "remove_empty" =>
       \A k \in 1..Len(current_nodes(Cur)) :
         (current_nodes(Cur)[k] \in PtIds(ptLst'))
           <=> ~IsEmptyNode(Cur, current_nodes(Cur)[k])]_vars

====
